---------------------------- MODULE Spec2Model ----------------------------
(***************************************************************************)
(* Model of joelgoop/weather-data-download (package wdata): the request    *)
(* builder create_url, the per-date download with revision fallback and    *)
(* retry, and the thread pool that runs a batch of dates.                  *)
(*                                                                         *)
(* Python text is a sequence of one-character strings, so that formatting, *)
(* percent-encoding and hashing act on characters as the code does.        *)
(***************************************************************************)
EXTENDS Integers, Sequences, FiniteSets, TLC

VARIABLES
    args,       \* create_url: the arguments of the call under test
    result,     \* create_url: what the call returned (NoResult before the call)
    job,        \* download / download_date: the arguments of the call
    mainpc,     \* download: where the calling thread is
    dates,      \* download: the dates to submit, in order; a task is an index
    submitted,  \* download: the number of add_task calls made
    pool,       \* ThreadPool: the number of workers started
    idle,       \* ThreadPool: the number of workers waiting in tasks.get()
    queue,      \* ThreadPool.tasks: the tasks waiting in the queue
    unfinished, \* ThreadPool.tasks: the queue's count of unfinished tasks
    tpc,        \* per task, where it is: "new", "queued", in a worker at "try",
                \* "fetch" or "write", and then "finished"
    rev,        \* retry_with_args: per task, the index in Revisions it is at
    mtries,     \* retry: per task, the tries left for the fetch it is at
    files,      \* the destination directory: file -> 1 if this call wrote it, 0 if it was there
    att,        \* per task and revision, the number of fetches and the last answer
    outcome,    \* per task, how download_date ended ("none" while it runs)
    faults,     \* the number of transport errors other than not-found so far
    hrange,     \* hourrange: the arguments start_time and end_time
    cur_time,   \* hourrange: the local cur_time, the next entry to yield
    numhours,   \* hourrange: the number of entries yielded so far
    start_hour, \* clean_merra: the first row of the window of the file of cur_time
    hpc,        \* hourrange: "loop" while the generator runs, then "done"
    cpc,        \* clean_merra / clean_merra2: where the call is
    cjob,       \* clean: the data source, the datatype and the files glob lists
    gpos,       \* clean: the place of itertools.groupby in the listing
    gkey,       \* clean: the key (dataset, year) of the group being merged
    fidx,       \* clean: the index in the listing of the file being merged
    vidx,       \* clean: the index of the variable of the file being merged
    stores,     \* the destination directory: (dataset, year) -> yearly store
    warned,     \* clean: the names a warning or an exception was logged for
    cerr,       \* clean: the exception the call ended with ("none" if none)
    runs,       \* the number of consolidation runs started on the inputs
    snap,       \* how the first run ended and the stores it left
    made        \* per store and name, how many times the name was created

urlVars == <<args, result>>

batchVars == <<job, mainpc, dates, submitted, pool, idle, queue, unfinished, tpc, rev,
               mtries, files, att, outcome, faults>>

hourVars == <<hrange, cur_time, numhours, start_hour, hpc>>

cleanVars == <<cpc, cjob, gpos, gkey, fidx, vidx, stores, warned, cerr, runs, snap, made>>

consVars == <<hourVars, cleanVars>>

vars == <<args, result, job, mainpc, dates, submitted, pool, idle, queue, unfinished, tpc,
          rev, mtries, files, att, outcome, faults, hrange, cur_time, numhours, start_hour, hpc,
          cpc, cjob, gpos, gkey, fidx, vidx, stores, warned, cerr, runs, snap, made>>

NoTime == [pending |-> TRUE]

\* no generator of hours is running
hourIdle == hrange = NoTime /\ cur_time = NoTime /\ numhours = 0 /\ start_hour = 0 /\ hpc = "idle"

NoJob == [pending |-> TRUE]

NoKey == [none |-> TRUE]

NoStores == [k \in {} |-> 0]

NoSnap == [pending |-> TRUE]

\* no consolidation is running
cleanIdle ==
    /\ cpc = "idle" /\ cjob = NoJob /\ gpos = 0 /\ gkey = NoKey /\ fidx = 0 /\ vidx = 0
    /\ stores = NoStores /\ warned = {} /\ cerr = "none" /\ runs = 0 /\ snap = NoSnap
    /\ made = NoStores

consIdle == hourIdle /\ cleanIdle

-----------------------------------------------------------------------------
(* Text helpers: str(), str.join, str.format fields, urllib.quote_plus.     *)

Ascii == << " ", "!", "\"", "#", "$", "%", "&", "'", "(", ")", "*", "+", ",", "-", ".", "/", "0", "1", "2", "3", "4", "5", "6", "7", "8", "9", ":", ";", "<", "=", ">", "?", "@", "A", "B", "C", "D", "E", "F", "G", "H", "I", "J", "K", "L", "M", "N", "O", "P", "Q", "R", "S", "T", "U", "V", "W", "X", "Y", "Z", "[", "\\", "]", "^", "_", "(96)", "a", "b", "c", "d", "e", "f", "g", "h", "i", "j", "k", "l", "m", "n", "o", "p", "q", "r", "s", "t", "u", "v", "w", "x", "y", "z", "{", "|", "}", "~" >>

\* ord(c) for a printable ASCII character (code 96 cannot be written in a
\* string of this language and has a placeholder in the table)
Ord(c) == 31 + CHOOSE i \in DOMAIN Ascii : Ascii[i] = c

Digits == <<"0", "1", "2", "3", "4", "5", "6", "7", "8", "9">>

HexDigits == <<"0", "1", "2", "3", "4", "5", "6", "7", "8", "9", "A", "B", "C", "D", "E", "F">>

RECURSIVE NatStr(_)
\* str(n) for n >= 0
NatStr(n) == IF n < 10 THEN <<Digits[n + 1]>> ELSE NatStr(n \div 10) \o <<Digits[(n % 10) + 1]>>

\* str(n) for an int
IntStr(n) == IF n < 0 THEN <<"-">> \o NatStr(0 - n) ELSE NatStr(n)

\* format(n, '02d') for n >= 0
Pad2(n) == IF n < 10 THEN <<"0">> \o NatStr(n) ELSE NatStr(n)

\* str(x) of a float with one decimal place, given in tenths (42.5 is 425)
FloatStr(t) == IF t < 0 THEN <<"-">> \o NatStr((0 - t) \div 10) \o <<".">> \o NatStr((0 - t) % 10)
               ELSE NatStr(t \div 10) \o <<".">> \o NatStr(t % 10)

\* '{}'.format(x) for one positional argument: an int, a float, or a str
FormatItem(x) == CASE x.t = "int" -> IntStr(x.v)
                   [] x.t = "float" -> FloatStr(x.v)
                   [] x.t = "str" -> x.v

RECURSIVE Concat(_, _, _)
\* parts[lo] + ... + parts[hi], by halves
Concat(parts, lo, hi) ==
    IF lo > hi THEN <<>>
    ELSE IF lo = hi THEN parts[lo]
    ELSE Concat(parts, lo, (lo + hi) \div 2) \o Concat(parts, ((lo + hi) \div 2) + 1, hi)

\* sep.join(parts)
Join(sep, parts) ==
    Concat([i \in 1..(2 * Len(parts) - 1) |-> IF i % 2 = 1 THEN parts[(i + 1) \div 2] ELSE sep],
           1, 2 * Len(parts) - 1)

AlwaysSafe == {Ascii[i] : i \in {j \in DOMAIN Ascii : \/ j + 31 \in 48..57
                                                       \/ j + 31 \in 65..90
                                                       \/ j + 31 \in 97..122}} \cup {"_", ".", "-"}

\* urllib.quote_plus on one character: safe characters kept, ' ' becomes '+',
\* every other character becomes %XX
QuoteChar(c) == IF c \in AlwaysSafe THEN <<c>>
                ELSE IF c = " " THEN <<"+">>
                ELSE <<"%", HexDigits[(Ord(c) \div 16) + 1], HexDigits[(Ord(c) % 16) + 1]>>

\* urllib.quote_plus(s)
quote_plus(s) == Concat([i \in DOMAIN s |-> QuoteChar(s[i])], 1, Len(s))

-----------------------------------------------------------------------------
(* Dates: datetime.date as a record; comparison is by (year, month, day).   *)

Date(y, m, d) == [year |-> y, month |-> m, day |-> d]

\* date > b, in place of date >= b
DateGT(date, b) == \/ date.year > b.year
                   \/ date.year = b.year /\ date.month > b.month
                   \/ date.year = b.year /\ date.month = b.month /\ date.day > b.day

\* date >= b
DateGE(date, b) == \/ date.year > b.year
                   \/ date.year = b.year /\ date.month > b.month
                   \/ date.year = b.year /\ date.month = b.month /\ date.day >= b.day

IsLeap(y) == (y % 4 = 0) /\ ((y % 100 # 0) \/ (y % 400 = 0))

DaysInMonth(y, m) == IF m = 2 THEN (IF IsLeap(y) THEN 29 ELSE 28)
                     ELSE IF m \in {4, 6, 9, 11} THEN 30 ELSE 31

-----------------------------------------------------------------------------
(* PRESETS and BBOX_PRESETS of wdata/merra.py.  A template is a sequence of *)
(* pieces: literal text, or a replacement field of str.format.              *)

Lit(s) == [lit |-> s]
Fld(name) == [fld |-> name]

WindVariables == <<<<"v","2","m">>, <<"v","1","0","m">>, <<"v","5","0","m">>, <<"u","2","m">>, <<"u","1","0","m">>, <<"u","5","0","m">>, <<"d","i","s","p","h">>>>

SolarVariables == <<<<"t","s">>, <<"a","l","b","e","d","o">>, <<"a","l","b","v","i","s","d","f">>, <<"a","l","b","v","i","s","d","r">>, <<"s","w","t","d","n">>, <<"s","w","g","d","n">>>>

DateFields == <<Fld("year"), Fld("month02"), Fld("day02")>>

PRESETS ==
    [merra |-> [
        datatypes |-> [
            wind |-> [variables |-> WindVariables, dataset |-> <<"t","a","v","g","1","_","2","d","_","s","l","v","_","N","x">>,
                      shortname |-> <<"M","A","T","1","N","X","S","L","V">>, data_version |-> <<"5",".","2",".","0">>],
            solar |-> [variables |-> SolarVariables, dataset |-> <<"t","a","v","g","1","_","2","d","_","r","a","d","_","N","x">>,
                       shortname |-> <<"M","A","T","1","N","X","R","A","D">>, data_version |-> <<"5",".","2",".","0">>]],
        fileformats |-> [
            hdf |-> <<<<"S","E","R","G","L","w">>, <<"h","d","f">>>>,
            nc |-> <<<<"T","m","V","0","Q","0","R","G","L","w">>, <<"n","c">>>>,
            default |-> <<<<"S","E","R","G","L","w">>, <<"h","d","f">>>>],
        version_breakpoints |-> <<Date(1993, 1, 1), Date(2001, 1, 1)>>,
        service |-> <<"S","U","B","S","E","T","_","L","A","T","S","4","D">>,
        version |-> <<"1",".","0","2">>,
        filename |-> <<Lit(<<"/","d","a","t","a","/","s","4","p","a","/","M","E","R","R","A","/">>), Fld("shortname"), Lit(<<".">>), Fld("data_version"),
                       Lit(<<"/">>), Fld("year"), Lit(<<"/">>), Fld("month02"), Lit(<<"/","M","E","R","R","A">>),
                       Fld("merra_version"), Lit(<<".","p","r","o","d",".","a","s","s","i","m",".">>), Fld("dataset"), Lit(<<".">>)>>
                     \o DateFields \o <<Lit(<<".">>), Fld("ext")>>,
        label |-> <<Lit(<<"M","E","R","R","A">>), Fld("merra_version"), Lit(<<".","p","r","o","d",".","a","s","s","i","m",".">>), Fld("dataset"),
                    Lit(<<".">>)>> \o DateFields \o <<Lit(<<".","S","U","B",".">>), Fld("ext")>>,
        base_url |-> <<"h","t","t","p",":","/","/","g","o","l","d","s","m","r","2",".","s","c","i",".","g","s","f","c",".","n","a","s","a",".","g","o","v","/","d","a","a","c","-","b","i","n","/","O","T","F","/","H","T","T","P","_","s","e","r","v","i","c","e","s",".","c","g","i","?">>],
     merra2 |-> [
        datatypes |-> [
            wind |-> [variables |-> WindVariables, dataset |-> <<"t","a","v","g","1","_","2","d","_","s","l","v","_","N","x">>,
                      shortname |-> <<"M","2","T","1","N","X","S","L","V">>, data_version |-> <<"5",".","1","2",".","4">>],
            solar |-> [variables |-> SolarVariables, dataset |-> <<"t","a","v","g","1","_","2","d","_","r","a","d","_","N","x">>,
                       shortname |-> <<"M","2","T","1","N","X","R","A","D">>, data_version |-> <<"5",".","1","2",".","4">>]],
        fileformats |-> [
            nc4 |-> <<<<"b","m","M","0","L","w">>, <<"n","c","4">>>>,
            default |-> <<<<"b","m","M","0","L","w">>, <<"n","c","4">>>>],
        version_breakpoints |-> <<Date(1992, 1, 1), Date(2001, 1, 1), Date(2011, 1, 1)>>,
        service |-> <<"S","U","B","S","E","T","_","M","E","R","R","A","2">>,
        version |-> <<"1",".","0","2">>,
        label |-> <<Lit(<<"s","v","c","_","M","E","R","R","A","2","_">>), Fld("merra_version"), Lit(<<".">>), Fld("dataset"),
                    Lit(<<".">>)>> \o DateFields \o <<Lit(<<".">>), Fld("ext")>>,
        filename |-> <<Lit(<<"/","d","a","t","a","/","s","4","p","a","/","M","E","R","R","A","2","/">>), Fld("shortname"), Lit(<<".">>), Fld("data_version"),
                       Lit(<<"/">>), Fld("year"), Lit(<<"/">>), Fld("month02"), Lit(<<"/","M","E","R","R","A","2","_">>),
                       Fld("merra_version"), Lit(<<".">>), Fld("dataset"), Lit(<<".">>)>>
                     \o DateFields \o <<Lit(<<".">>), Fld("ext")>>,
        base_url |-> <<"h","t","t","p",":","/","/","g","o","l","d","s","m","r","4",".","g","e","s","d","i","s","c",".","e","o","s","d","i","s",".","n","a","s","a",".","g","o","v","/","d","a","a","c","-","b","i","n","/","O","T","F","/","H","T","T","P","_","s","e","r","v","i","c","e","s",".","c","g","i","?">>]]

PyInt(n) == [t |-> "int", v |-> n]
PyFloat(tenths) == [t |-> "float", v |-> tenths]

\* a bounding box argument: a tuple of numbers, or a str
BoxTuple(items) == [kind |-> "tuple", val |-> items]
BoxName(s) == [kind |-> "str", val |-> s]

Europe == <<"e","u","r","o","p","e">>

BBOX_PRESETS == [n \in {Europe} |-> <<PyInt(30), PyInt(-15), PyInt(75), PyFloat(425)>>]

-----------------------------------------------------------------------------
(* The dict merra_args and urllib.urlencode.  urlencode walks the dict in  *)
(* the order of its hash table, so the order of the parameters in the URL  *)
(* is decided by the keys' hashes: the table is modelled as CPython 2 fills *)
(* it (string hash, open addressing with the perturbed probe sequence).    *)
(* Only the low 16 bits of a hash are kept: the first two probes read no   *)
(* higher bit, and no key of merra_args needs a third.                     *)

RECURSIVE BitXor(_, _)
BitXor(a, b) == IF a = 0 THEN b
                ELSE IF b = 0 THEN a
                ELSE 2 * BitXor(a \div 2, b \div 2) + (((a % 2) + (b % 2)) % 2)

RECURSIVE HashChars(_, _)
\* one round per character: x = (1000003 * x) ^ ord(c)
HashChars(x, s) == IF Len(s) = 0 THEN x
                   ELSE HashChars(BitXor(((1000003 % 65536) * x) % 65536, Ord(s[1])), Tail(s))

\* hash(s) & 0xFFFF for a non-empty str
string_hash(s) == BitXor(HashChars((Ord(s[1]) * 128) % 65536, s), Len(s))

\* slots of the table of a dict display with eight entries
DictSlots == 16

NoEntry == <<>>

EmptyDict == [i \in 0..(DictSlots - 1) |-> NoEntry]

RECURSIVE Probe(_, _, _, _)
\* the slot where key is stored: the first one that is free or holds key
Probe(table, key, i, perturb) ==
    LET slot == i % DictSlots
    IN  IF table[slot] = NoEntry \/ table[slot][1] = key THEN slot
        ELSE Probe(table, key, 5 * i + perturb + 1, perturb \div 32)

\* d[key] = value
DictSet(table, key, value) ==
    LET h == string_hash(key)
    IN  [table EXCEPT ![Probe(table, key, h % DictSlots, h)] = <<key, value>>]

RECURSIVE DictOf(_)
\* {k1: v1, k2: v2, ...}: the entries are stored in source order
DictOf(entries) == IF Len(entries) = 0 THEN EmptyDict
                   ELSE LET e == entries[Len(entries)]
                        IN  DictSet(DictOf(SubSeq(entries, 1, Len(entries) - 1)), e[1], e[2])

RECURSIVE ItemsFrom(_, _)
ItemsFrom(table, i) == IF i >= DictSlots THEN <<>>
                       ELSE (IF table[i] = NoEntry THEN <<>> ELSE <<table[i]>>)
                            \o ItemsFrom(table, i + 1)

\* d.items(): the entries in table order
DictItems(table) == ItemsFrom(table, 0)

\* urllib.urlencode(query) for a dict with str values
urlencode(query) ==
    LET items == DictItems(query)
    IN  Join(<<"&">>, [i \in DOMAIN items |->
                          quote_plus(items[i][1]) \o <<"=">> \o quote_plus(items[i][2])])

-----------------------------------------------------------------------------
(* create_url                                                               *)

RECURSIVE VersionLoop(_, _, _)
\* for b in settings['version_breakpoints']: if date >= b: merra_version += 100
VersionLoop(v, date, breakpoints) ==
    IF Len(breakpoints) = 0 THEN v
    ELSE VersionLoop(IF DateGE(date, breakpoints[1]) THEN v + 100 ELSE v,
                     date, Tail(breakpoints))

\* merra_version without the line merra_version += revision
merra_version_norevision(date, settings, revision) ==
    VersionLoop(100, date, settings.version_breakpoints)

\* merra_version = 100, the breakpoint loop, then merra_version += revision
merra_version(date, settings, revision) ==
    VersionLoop(100, date, settings.version_breakpoints) + revision

\* the value str.format puts in place of one replacement field
FieldText(name, info) ==
    CASE name = "year" -> IntStr(info.date.year)
      [] name = "month02" -> Pad2(info.date.month)
      [] name = "day02" -> Pad2(info.date.day)
      [] name = "merra_version" -> IntStr(info.merra_version)
      [] name = "ext" -> info.ext
      [] name = "dataset" -> info.dataset
      [] name = "shortname" -> info.shortname
      [] name = "data_version" -> info.data_version

RECURSIVE Format(_, _)
\* template.format(**data_info)
Format(template, info) ==
    IF Len(template) = 0 THEN <<>>
    ELSE (IF "lit" \in DOMAIN template[1] THEN template[1].lit
          ELSE FieldText(template[1].fld, info)) \o Format(Tail(template), info)

\* data_info with merra_version set
data_info(date, datatype, settings, filefmt, revision) ==
    LET dt == settings.datatypes[datatype]
    IN  [ext |-> settings.fileformats[filefmt][2],
         date |-> date,
         variables |-> dt.variables,
         dataset |-> dt.dataset,
         shortname |-> dt.shortname,
         data_version |-> dt.data_version,
         merra_version |-> merra_version(date, settings, revision)]

\* the items of bbox_tup that '{},{},{},{}'.format(*bbox_tup) is given
BoxItems(bbox) ==
    LET tup == IF bbox.kind = "str" /\ bbox.val \in DOMAIN BBOX_PRESETS
               THEN BoxTuple(BBOX_PRESETS[bbox.val]) ELSE bbox
    IN  IF tup.kind = "str" THEN [i \in DOMAIN tup.val |-> [t |-> "str", v |-> <<tup.val[i]>>]]
        ELSE tup.val

\* merra_args['LABEL']
label_of(date, datatype, settings, filefmt, revision) ==
    Format(settings.label, data_info(date, datatype, settings, filefmt, revision))

\* merra_args with FILENAME formatted before merra_version is set from the
\* revision (the archive file of revision 0 under the label of the revision)
merra_args_stale_filename(date, datatype, settings, filefmt, revision, bbox) ==
    LET info == data_info(date, datatype, settings, filefmt, revision)
        items == BoxItems(bbox)
        bbox_str == Join(<<",">>, [i \in 1..4 |-> FormatItem(items[i])])
    IN  DictOf(<< <<<<"B","B","O","X">>, bbox_str>>,
                  <<<<"F","I","L","E","N","A","M","E">>, Format(settings.filename,
                                        data_info(date, datatype, settings, filefmt, 0))>>,
                  <<<<"F","O","R","M","A","T">>, settings.fileformats[filefmt][1]>>,
                  <<<<"L","A","B","E","L">>, Format(settings.label, info)>>,
                  <<<<"V","A","R","I","A","B","L","E","S">>, Join(<<",">>, info.variables)>>,
                  <<<<"V","E","R","S","I","O","N">>, settings.version>>,
                  <<<<"S","H","O","R","T","N","A","M","E">>, info.shortname>>,
                  <<<<"S","E","R","V","I","C","E">>, settings.service>> >>)

\* the dict merra_args
merra_args(date, datatype, settings, filefmt, revision, bbox) ==
    LET info == data_info(date, datatype, settings, filefmt, revision)
        items == BoxItems(bbox)
        bbox_str == Join(<<",">>, [i \in 1..4 |-> FormatItem(items[i])])
    IN  DictOf(<< <<<<"B","B","O","X">>, bbox_str>>,
                  <<<<"F","I","L","E","N","A","M","E">>, Format(settings.filename, info)>>,
                  <<<<"F","O","R","M","A","T">>, settings.fileformats[filefmt][1]>>,
                  <<<<"L","A","B","E","L">>, Format(settings.label, info)>>,
                  <<<<"V","A","R","I","A","B","L","E","S">>, Join(<<",">>, info.variables)>>,
                  <<<<"V","E","R","S","I","O","N">>, settings.version>>,
                  <<<<"S","H","O","R","T","N","A","M","E">>, info.shortname>>,
                  <<<<"S","E","R","V","I","C","E">>, settings.service>> >>)

\* create_url(date, datatype, settings, filefmt, revision, bbox): the pair
\* (URL, label), or the error raised
create_url(date, datatype, settings, filefmt, revision, bbox) ==
    IF Len(BoxItems(bbox)) < 4 THEN [ok |-> FALSE, err |-> "IndexError"]
    ELSE [ok |-> TRUE,
          url |-> settings.base_url
                  \o urlencode(merra_args(date, datatype, settings, filefmt, revision, bbox)),
          label |-> label_of(date, datatype, settings, filefmt, revision)]

-----------------------------------------------------------------------------
(* Specification SpecUrl: one call of create_url on arguments drawn from   *)
(* bounded sets (dates on and around every breakpoint, every registered    *)
(* datatype and file format of each source, revisions 0..2).               *)

SampleYears == {1979, 1980, 1991, 1992, 1993, 2000, 2001, 2010, 2011, 2016}

SampleDates == {Date(y, m, d) : y \in SampleYears, m \in {1, 2, 12}, d \in {1, 29, 31}}

ValidDate(date) == date.month \in 1..12 /\ date.day \in 1..DaysInMonth(date.year, date.month)

DataSources == {"merra", "merra2"}

DataTypes == {"wind", "solar"}

\* the revisions download_date tries
Revisions == <<0, 1, 2>>

TestBox == BoxTuple(<<PyInt(30), PyInt(-15), PyInt(75), PyFloat(425)>>)

SampleBoxes == {BoxName(Europe), TestBox, BoxTuple(<<PyFloat(-105), PyInt(0), PyInt(7), PyFloat(3)>>)}

UrlArgs == {a \in [date : SampleDates, datatype : DataTypes, datasource : DataSources,
                   filefmt : {"hdf", "nc", "nc4", "default"},
                   revision : {Revisions[i] : i \in DOMAIN Revisions}, bbox : SampleBoxes] :
               /\ ValidDate(a.date)
               /\ a.filefmt \in DOMAIN PRESETS[a.datasource].fileformats}

\* before the call there is no result
NoResult == [pending |-> TRUE]

NoFiles == [l \in {} |-> 0]

batchIdle ==
    /\ job = NoJob /\ mainpc = "idle" /\ dates = <<>> /\ submitted = 0 /\ pool = 0
    /\ idle = 0 /\ queue = <<>> /\ unfinished = 0 /\ tpc = <<>> /\ rev = <<>>
    /\ mtries = <<>> /\ files = NoFiles /\ att = <<>> /\ outcome = <<>> /\ faults = 0

InitUrl == /\ args \in UrlArgs
           /\ result = NoResult
           /\ batchIdle /\ consIdle

\* url, label = create_url(date, datatype, settings=PRESETS[datasource], ...)
CallCreateUrl ==
    /\ result = NoResult
    /\ result' = create_url(args.date, args.datatype, PRESETS[args.datasource],
                            args.filefmt, args.revision, args.bbox)
    /\ UNCHANGED args
    /\ UNCHANGED <<batchVars, consVars>>

NextUrl == CallCreateUrl

SpecUrl == InitUrl /\ [][NextUrl]_vars

-----------------------------------------------------------------------------
(* Claims about create_url (SpecUrl)                                        *)

\* the three digits of the version number in a label: after 'MERRA' for merra,
\* after 'svc_MERRA2_' for merra2
VersionInLabel(datasource, label) ==
    IF datasource = "merra" THEN SubSeq(label, 6, 8) ELSE SubSeq(label, 12, 14)

\* the breakpoints of a source that are on or before date
BreakpointsPassed(datasource, date) ==
    LET bps == PRESETS[datasource].version_breakpoints
    IN  {i \in DOMAIN bps : DateGE(date, bps[i])}

\* s.split(sep) for a one-character separator
Split(s, sep) ==
    LET at == {i \in DOMAIN s : s[i] = sep}
        \* the position of the k-th separator; 0 and Len(s) + 1 close the ends
        cut(k) == IF k = 0 THEN 0
                  ELSE IF k > Cardinality(at) THEN Len(s) + 1
                  ELSE CHOOSE i \in at : Cardinality({j \in at : j < i}) = k - 1
    IN  [k \in 1..(Cardinality(at) + 1) |-> SubSeq(s, cut(k - 1) + 1, cut(k) - 1)]

\* the query string of a URL: what follows the first '?'
QueryOf(url) == LET i == CHOOSE j \in DOMAIN url : url[j] = "?" /\ \A k \in 1..(j - 1) : url[k] # "?"
                IN  SubSeq(url, i + 1, Len(url))

\* the parameters of a URL in the order they appear, each as <<name, value>>
ParamsOf(url) == LET parts == Split(QueryOf(url), "&")
                 IN  [i \in DOMAIN parts |->
                        LET kv == Split(parts[i], "=") IN <<kv[1], kv[2]>>]

\* the value of the parameter called key
ParamValue(url, key) ==
    LET ps == ParamsOf(url) IN ps[CHOOSE i \in DOMAIN ps : ps[i][1] = key][2]

\* sub occurs in s
IsInfix(sub, s) == \E i \in 1..(Len(s) - Len(sub) + 1) : SubSeq(s, i, i + Len(sub) - 1) = sub

\* C1: the version number in the request is 100, plus 100 for each breakpoint on
\* or before the date, plus the revision; before the first breakpoint it is
\* 100 + revision, and a date equal to a breakpoint counts that breakpoint.
C1_VersionFromBreakpoints ==
    (result # NoResult) =>
        LET passed == BreakpointsPassed(args.datasource, args.date)
            bps == PRESETS[args.datasource].version_breakpoints
            expected == IntStr(100 + 100 * Cardinality(passed) + args.revision)
        IN  /\ result.ok
            /\ VersionInLabel(args.datasource, result.label) = expected
            /\ VersionInLabel(args.datasource, ParamValue(result.url, <<"L","A","B","E","L">>)) = expected
            /\ (~DateGE(args.date, bps[1]) =>
                    VersionInLabel(args.datasource, result.label) = IntStr(100 + args.revision))
            /\ \A i \in DOMAIN bps : (args.date = bps[i]) => i \in passed

\* C1 witness: a call for a date equal to the last breakpoint of merra2 at
\* revision 2 has returned version 402
C1_Witness ==
    /\ result # NoResult
    /\ args.date = Date(2011, 1, 1) /\ args.datasource = "merra2" /\ args.revision = 2
    /\ VersionInLabel("merra2", result.label) = <<"4","0","2">>

\* the URL the unit tests of create_url expect for merra wind data
TestMerraWindUrl == <<"h","t","t","p",":","/","/","g","o","l","d","s","m","r","2",".","s","c","i",".","g","s","f","c",".","n","a","s","a",".","g","o","v","/","d","a","a","c","-","b","i","n","/","O","T","F","/","H","T","T","P","_","s","e","r","v","i","c","e","s",".","c","g","i","?","V","E","R","S","I","O","N","=","1",".","0","2","&","B","B","O","X","=","3","0","%","2","C","-","1","5","%","2","C","7","5","%","2","C","4","2",".","5","&","S","E","R","V","I","C","E","=","S","U","B","S","E","T","_","L","A","T","S","4","D","&","F","O","R","M","A","T","=","S","E","R","G","L","w","&","V","A","R","I","A","B","L","E","S","=","v","2","m","%","2","C","v","1","0","m","%","2","C","v","5","0","m","%","2","C","u","2","m","%","2","C","u","1","0","m","%","2","C","u","5","0","m","%","2","C","d","i","s","p","h","&","L","A","B","E","L","=","M","E","R","R","A","1","0","0",".","p","r","o","d",".","a","s","s","i","m",".","t","a","v","g","1","_","2","d","_","s","l","v","_","N","x",".","1","9","7","9","0","1","0","1",".","S","U","B",".","h","d","f","&","S","H","O","R","T","N","A","M","E","=","M","A","T","1","N","X","S","L","V","&","F","I","L","E","N","A","M","E","=","%","2","F","d","a","t","a","%","2","F","s","4","p","a","%","2","F","M","E","R","R","A","%","2","F","M","A","T","1","N","X","S","L","V",".","5",".","2",".","0","%","2","F","1","9","7","9","%","2","F","0","1","%","2","F","M","E","R","R","A","1","0","0",".","p","r","o","d",".","a","s","s","i","m",".","t","a","v","g","1","_","2","d","_","s","l","v","_","N","x",".","1","9","7","9","0","1","0","1",".","h","d","f">>

\* the URL the unit tests of create_url expect for merra2 wind data
TestMerra2WindUrl == <<"h","t","t","p",":","/","/","g","o","l","d","s","m","r","4",".","g","e","s","d","i","s","c",".","e","o","s","d","i","s",".","n","a","s","a",".","g","o","v","/","d","a","a","c","-","b","i","n","/","O","T","F","/","H","T","T","P","_","s","e","r","v","i","c","e","s",".","c","g","i","?","V","E","R","S","I","O","N","=","1",".","0","2","&","B","B","O","X","=","3","0","%","2","C","-","1","5","%","2","C","7","5","%","2","C","4","2",".","5","&","S","E","R","V","I","C","E","=","S","U","B","S","E","T","_","M","E","R","R","A","2","&","F","O","R","M","A","T","=","b","m","M","0","L","w","&","V","A","R","I","A","B","L","E","S","=","v","2","m","%","2","C","v","1","0","m","%","2","C","v","5","0","m","%","2","C","u","2","m","%","2","C","u","1","0","m","%","2","C","u","5","0","m","%","2","C","d","i","s","p","h","&","L","A","B","E","L","=","s","v","c","_","M","E","R","R","A","2","_","1","0","0",".","t","a","v","g","1","_","2","d","_","s","l","v","_","N","x",".","1","9","8","0","0","1","0","1",".","n","c","4","&","S","H","O","R","T","N","A","M","E","=","M","2","T","1","N","X","S","L","V","&","F","I","L","E","N","A","M","E","=","%","2","F","d","a","t","a","%","2","F","s","4","p","a","%","2","F","M","E","R","R","A","2","%","2","F","M","2","T","1","N","X","S","L","V",".","5",".","1","2",".","4","%","2","F","1","9","8","0","%","2","F","0","1","%","2","F","M","E","R","R","A","2","_","1","0","0",".","t","a","v","g","1","_","2","d","_","s","l","v","_","N","x",".","1","9","8","0","0","1","0","1",".","n","c","4">>

\* the order in which the unit tests expect the parameters
ParamOrder == <<<<"V","E","R","S","I","O","N">>, <<"B","B","O","X">>, <<"S","E","R","V","I","C","E">>, <<"F","O","R","M","A","T">>, <<"V","A","R","I","A","B","L","E","S">>, <<"L","A","B","E","L">>,
                <<"S","H","O","R","T","N","A","M","E">>, <<"F","I","L","E","N","A","M","E">>>>

\* the product name, version, dataset and date as a file of the archive carries them
FileCore(datasource, version, dataset, date) ==
    (IF datasource = "merra" THEN <<"M","E","R","R","A">> \o IntStr(version) \o <<".","p","r","o","d",".","a","s","s","i","m",".">>
     ELSE <<"M","E","R","R","A","2","_">> \o IntStr(version) \o <<".">>)
    \o dataset \o <<".">> \o IntStr(date.year) \o Pad2(date.month) \o Pad2(date.day) \o <<".">>

\* C2: the URL is the source's base URL followed by exactly the eight parameters
\* in the order VERSION, BBOX, SERVICE, FORMAT, VARIABLES, LABEL, SHORTNAME,
\* FILENAME; VARIABLES is the preset's list joined in list order; LABEL and FILENAME
\* carry the same resolved version and the same date; and for the arguments of the
\* unit tests the URL is the tests' literal.
C2_UrlShape ==
    (result # NoResult) =>
        LET settings == PRESETS[args.datasource]
            dt == settings.datatypes[args.datatype]
            ps == ParamsOf(result.url)
            version == 100 + 100 * Cardinality(BreakpointsPassed(args.datasource, args.date))
                       + args.revision
            core == FileCore(args.datasource, version, dt.dataset, args.date)
        IN  /\ result.ok
            /\ SubSeq(result.url, 1, Len(settings.base_url)) = settings.base_url
            /\ [i \in DOMAIN ps |-> ps[i][1]] = ParamOrder
            /\ ParamValue(result.url, <<"V","A","R","I","A","B","L","E","S">>) = quote_plus(Join(<<",">>, dt.variables))
            /\ ParamValue(result.url, <<"L","A","B","E","L">>) = result.label
            /\ IsInfix(core, result.label)
            /\ IsInfix(quote_plus(<<"/">>) \o core, ParamValue(result.url, <<"F","I","L","E","N","A","M","E">>))
            /\ ( /\ args.date = Date(1979, 1, 1) /\ args.datasource = "merra"
                 /\ args.datatype = "wind" /\ args.filefmt = "hdf"
                 /\ args.revision = 0 /\ args.bbox = TestBox
                 => result.url = TestMerraWindUrl )
            /\ ( /\ args.date = Date(1980, 1, 1) /\ args.datasource = "merra2"
                 /\ args.datatype = "wind" /\ args.filefmt = "nc4"
                 /\ args.revision = 0 /\ args.bbox = TestBox
                 => result.url = TestMerra2WindUrl )

\* C2 witness: the call of the unit test test_merra_wind has returned, and a call
\* with a later date and a revision above 0 has returned
C2_Witness ==
    /\ result # NoResult
    /\ \/ result.url = TestMerraWindUrl
       \/ /\ args.revision = 1 /\ args.date = Date(2001, 1, 1) /\ args.datasource = "merra"
          /\ IsInfix(<<"M","E","R","R","A","3","0","1">>, result.label)

-----------------------------------------------------------------------------
(* utils.daterange, on the proleptic Gregorian ordinal of datetime.date     *)

\* days before January 1st of year y
DaysBeforeYear(y) == (y - 1) * 365 + ((y - 1) \div 4) - ((y - 1) \div 100) + ((y - 1) \div 400)

RECURSIVE DaysBeforeMonth(_, _)
\* days of year y before the first day of month m
DaysBeforeMonth(y, m) == IF m = 1 THEN 0 ELSE DaysBeforeMonth(y, m - 1) + DaysInMonth(y, m - 1)

\* date.toordinal()
ToOrdinal(date) == DaysBeforeYear(date.year) + DaysBeforeMonth(date.year, date.month) + date.day

\* date.fromordinal(n), for the years the model uses
FromOrdinal(n) ==
    LET y == CHOOSE yy \in 1900..2100 : DaysBeforeYear(yy) < n /\ n <= DaysBeforeYear(yy + 1)
        m == CHOOSE mm \in 1..12 : /\ DaysBeforeMonth(y, mm) < n - DaysBeforeYear(y)
                                   /\ n - DaysBeforeYear(y) <= DaysBeforeMonth(y, mm) + DaysInMonth(y, mm)
    IN  Date(y, m, n - DaysBeforeYear(y) - DaysBeforeMonth(y, m))

\* list(daterange(start_date, end_date)): start_date + n days for n in
\* range((end_date - start_date).days)
daterange(start_date, end_date) ==
    [i \in 1..(IF ToOrdinal(end_date) > ToOrdinal(start_date)
               THEN ToOrdinal(end_date) - ToOrdinal(start_date) ELSE 0) |->
        FromOrdinal(ToOrdinal(start_date) + (i - 1))]

-----------------------------------------------------------------------------
(* download, download_date, dlfile with its retry decorator, retry_with_args *)
(* and the thread pool.  A task is an index into dates; a file of the        *)
(* destination directory is named by the version and the date of its label. *)

\* ThreadPool(4) in download
NumThreads == 4

\* @retry(HTTPError, 10) on dlfile
Tries == 10

\* what download_date can raise: Exception("No working argument found.") of
\* retry_with_args after the last revision was not found, HTTPError with a
\* code other than 404, URLError
Failures == {"Exception", "HTTPError", "URLError"}

\* the first days of each year that the batch model submits
MaxDays == 3

\* dates of a batch for which the transport answers a fetch with something else
\* than the content
MaxFaultyDates == 1

\* answers among these that are errors other than not-found; the batch model
\* lets such an error happen as the first fault of its date
MaxFaults == 1

Min(a, b) == IF a < b THEN a ELSE b

\* the checks of download without the check of the file format
ValidateNoFormat(j) ==
    IF j.datasource \notin DOMAIN PRESETS THEN "NameError"
    ELSE IF j.datatype \notin DOMAIN PRESETS[j.datasource].datatypes THEN "NameError"
    ELSE "ok"

\* the checks at the start of download: the error raised, or "ok".  The name
\* ArgumentError is bound nowhere in the module, so that each raise statement
\* ends in a NameError.
Validate(j) ==
    IF j.datasource \notin DOMAIN PRESETS THEN "NameError"
    ELSE IF j.datatype \notin DOMAIN PRESETS[j.datasource].datatypes THEN "NameError"
    ELSE IF j.filefmt \notin DOMAIN PRESETS[j.datasource].fileformats THEN "NameError"
    ELSE "ok"

\* chain(*[daterange(date(year,1,1), date(year+1,1,1)) for year in years]),
\* each year cut to its first MaxDays days
DatesOf(years) ==
    Concat([i \in DOMAIN years |->
               LET all == daterange(Date(years[i], 1, 1), Date(years[i] + 1, 1, 1))
               IN  SubSeq(all, 1, Min(MaxDays, Len(all)))],
           1, Len(years))

\* the lists of years a batch is run on: two years, and one year given twice
YearLists == {<<2000, 2001>>, <<2000, 2000>>}

\* dates of download for each list of years of the model, computed once
DatesOfYears == [years \in YearLists |-> DatesOf(years)]

\* one worker more than num_threads (range(num_threads + 1))
PoolWorkersOneMore(num_threads) == num_threads + 1

\* ThreadPool.__init__: the number of workers started
PoolWorkers(num_threads) == num_threads

\* ThreadPool.__init__: Queue.Queue(num_threads), the capacity of the queue
QueueMaxSize(num_threads) == num_threads

NoAttempts == [r \in DOMAIN Revisions |-> [n |-> 0, last |-> "none"]]

\* target_file of try_download_revision for task t and the r-th revision.  All
\* tasks of a call share dest, datatype, settings and filefmt, so that the label
\* create_url returns is told apart by the version number and the date alone: a
\* file of the destination directory is named by these two.
TargetFile(t, r) ==
    [version |-> merra_version(dates[t], PRESETS[job.datasource], Revisions[r]),
     date |-> dates[t]]

\* download: an argument is not registered and the call raises
DownloadReject ==
    /\ mainpc = "validate"
    /\ Validate(job) # "ok"
    /\ mainpc' = "raised"
    /\ UNCHANGED <<consVars, args, result, job, dates, submitted, pool, idle, queue, unfinished, tpc, rev, mtries,
                   files, att, outcome, faults>>

\* download: the arguments are registered; the dates are listed and the pool
\* is created with its workers waiting on the queue
DownloadSetup ==
    /\ mainpc = "validate"
    /\ Validate(job) = "ok"
    /\ dates' = DatesOfYears[job.years]
    /\ pool' = PoolWorkers(NumThreads)
    /\ idle' = pool'
    /\ tpc' = [t \in DOMAIN dates' |-> "new"]
    /\ rev' = [t \in DOMAIN dates' |-> 1]
    /\ mtries' = [t \in DOMAIN dates' |-> Tries]
    /\ att' = [t \in DOMAIN dates' |-> NoAttempts]
    /\ outcome' = [t \in DOMAIN dates' |-> "none"]
    /\ mainpc' = IF Len(dates') = 0 THEN "join" ELSE "submit"
    /\ UNCHANGED <<consVars, args, result, job, submitted, queue, unfinished, files, faults>>

\* pool.add_task(dl_task, date): Queue.put blocks while the queue is full
AddTask ==
    /\ mainpc = "submit"
    /\ Len(queue) < QueueMaxSize(NumThreads)
    /\ queue' = Append(queue, submitted + 1)
    /\ tpc' = [tpc EXCEPT ![submitted + 1] = "queued"]
    /\ unfinished' = unfinished + 1
    /\ submitted' = submitted + 1
    /\ mainpc' = IF submitted' = Len(dates) THEN "join" ELSE "submit"
    /\ UNCHANGED <<consVars, args, result, job, dates, pool, idle, rev, mtries, files, att, outcome, faults>>

\* a join that returns while one task is still unfinished
JoinReturnsEarly(count) == count <= 1

\* Queue.join returns when the count of unfinished tasks is zero
JoinReturns(count) == count = 0

\* pool.wait_completion(): self.tasks.join()
WaitCompletion ==
    /\ mainpc = "join"
    /\ JoinReturns(unfinished)
    /\ mainpc' = "returned"
    /\ UNCHANGED <<consVars, args, result, job, dates, submitted, pool, idle, queue, unfinished, tpc, rev, mtries,
                   files, att, outcome, faults>>

\* Worker.run: func, args, kargs = self.tasks.get() in a worker that waits on
\* the queue; download_date starts with the first revision
WorkerGet ==
    /\ idle > 0
    /\ Len(queue) > 0
    /\ idle' = idle - 1
    /\ queue' = Tail(queue)
    /\ tpc' = [tpc EXCEPT ![Head(queue)] = "try"]
    /\ rev' = [rev EXCEPT ![Head(queue)] = 1]
    /\ UNCHANGED <<consVars, args, result, job, mainpc, dates, submitted, pool, unfinished, mtries, files, att,
                   outcome, faults>>

\* a Worker.run whose try statement catches URLNotFoundException only
CatchNotFoundOnly(raised) == "propagates"

\* what Worker.run does when func raises: the exception is caught and logged,
\* and the worker goes on ("caught")
CatchInWorker(raised) == "caught"

\* download_date ends for task t, returning ("downloaded", "skipped") or raising
\* (one of Failures).  In a worker, Worker.run then logs what was raised, calls
\* self.tasks.task_done() and waits on the queue again; a worker that does not
\* catch what was raised ends without task_done.
TaskEnds(t, how) ==
    /\ outcome' = [outcome EXCEPT ![t] = how]
    /\ IF mainpc = "download_date"
       THEN /\ tpc' = [tpc EXCEPT ![t] = "finished"]
            /\ UNCHANGED <<unfinished, idle>>
       ELSE IF how \in Failures /\ CatchInWorker(how) # "caught"
       THEN /\ tpc' = [tpc EXCEPT ![t] = "dead"]
            /\ UNCHANGED <<unfinished, idle>>
       ELSE /\ tpc' = [tpc EXCEPT ![t] = "finished"]
            /\ unfinished' = unfinished - 1
            /\ idle' = idle + 1

\* try_download_revision up to the call of dlfile: the target exists and
\* skip_existing is set, and download_date returns
SkipExisting(t) ==
    /\ tpc[t] = "try"
    /\ TargetFile(t, rev[t]) \in DOMAIN files /\ job.skip_existing
    /\ TaskEnds(t, "skipped")
    /\ UNCHANGED <<consVars, args, result, job, mainpc, dates, submitted, pool, queue, rev, mtries, files,
                   att, faults>>

\* try_download_revision up to the call of dlfile: otherwise dlfile is called
StartDownload(t) ==
    /\ tpc[t] = "try"
    /\ ~(TargetFile(t, rev[t]) \in DOMAIN files /\ job.skip_existing)
    /\ mtries' = [mtries EXCEPT ![t] = Tries]
    /\ tpc' = [tpc EXCEPT ![t] = "fetch"]
    /\ UNCHANGED <<consVars, args, result, job, mainpc, dates, submitted, pool, idle, queue, unfinished, rev, files,
                   att, outcome, faults>>

\* one more urlopen for the revision task t is at, with its answer
Attempted(t, answer) ==
    [att EXCEPT ![t][rev[t]] = [n |-> @.n + 1, last |-> answer]]

\* the transport has answered a fetch for task u with something else than the
\* content
Faulty(u) == \E r \in DOMAIN Revisions : att[u][r].n > 1 \/ att[u][r].last \notin {"none", "ok"}

\* the batch model lets the transport fail a fetch for task t
MayFault(t) ==
    /\ faults < MaxFaults
    /\ Cardinality({u \in DOMAIN dates : Faulty(u)} \cup {t}) <= MaxFaultyDates

\* dlfile: urlopen answers with the content and the target is opened for writing
FetchOk(t) ==
    /\ tpc[t] = "fetch"
    /\ att' = Attempted(t, "ok")
    /\ files' = [l \in DOMAIN files \cup {TargetFile(t, rev[t])} |->
                    IF l = TargetFile(t, rev[t]) THEN 1 ELSE files[l]]
    /\ tpc' = [tpc EXCEPT ![t] = "write"]
    /\ UNCHANGED <<consVars, args, result, job, mainpc, dates, submitted, pool, idle, queue, unfinished, rev, mtries,
                   outcome, faults>>

\* dlfile: the content is written, the file closed, and download_date returns
FinishWrite(t) ==
    /\ tpc[t] = "write"
    /\ TaskEnds(t, "downloaded")
    /\ UNCHANGED <<consVars, args, result, job, mainpc, dates, submitted, pool, queue, rev, mtries, files,
                   att, faults>>

\* dlfile: HTTPError 404 becomes URLNotFoundException, which the retry decorator
\* lets through and retry_with_args catches: the next revision is tried, or after
\* the last one Exception("No working argument found.") is raised
FetchNotFound(t) ==
    /\ tpc[t] = "fetch"
    /\ att' = Attempted(t, "notfound")
    /\ IF rev[t] < Len(Revisions)
       THEN /\ rev' = [rev EXCEPT ![t] = @ + 1]
            /\ tpc' = [tpc EXCEPT ![t] = "try"]
            /\ UNCHANGED <<outcome, unfinished, idle>>
       ELSE /\ TaskEnds(t, "Exception")
            /\ UNCHANGED rev
    /\ UNCHANGED <<consVars, args, result, job, mainpc, dates, submitted, pool, queue, mtries, files, faults>>

\* the loop of the decorator written as while mtries > 0: one more retry
RetryWhileTriesLeft(exc, m) ==
    IF exc = "HTTPError" /\ m > 0 THEN "retry" ELSE "raise"

\* what the retry decorator does with an exception of class exc that dlfile
\* raises when m tries are left: "retry" after a sleep, or "raise"
RetryDecision(exc, m) ==
    IF exc = "HTTPError" /\ m > 1 THEN "retry" ELSE "raise"

\* dlfile raises exc and retry_with_args, called without exc=, catches it like
\* a not-found: the next revision is tried
FetchErrorNextRevision(t, exc) ==
    /\ tpc[t] = "fetch"
    /\ att' = Attempted(t, exc)
    /\ faults' = faults + 1
    /\ IF rev[t] < Len(Revisions)
       THEN /\ rev' = [rev EXCEPT ![t] = @ + 1]
            /\ tpc' = [tpc EXCEPT ![t] = "try"]
            /\ UNCHANGED <<outcome, unfinished, idle>>
       ELSE /\ TaskEnds(t, "Exception")
            /\ UNCHANGED rev
    /\ UNCHANGED <<consVars, args, result, job, mainpc, dates, submitted, pool, queue, mtries, files>>

\* dlfile raises exc (HTTPError with a code other than 404, or URLError)
FetchError(t, exc) ==
    /\ tpc[t] = "fetch"
    /\ att' = Attempted(t, exc)
    /\ faults' = faults + 1
    /\ IF RetryDecision(exc, mtries[t]) = "retry"
       THEN /\ mtries' = [mtries EXCEPT ![t] = @ - 1]
            /\ UNCHANGED <<tpc, outcome, unfinished, idle>>
       ELSE /\ TaskEnds(t, exc)
            /\ UNCHANGED mtries
    /\ UNCHANGED <<consVars, args, result, job, mainpc, dates, submitted, pool, queue, rev, files>>

FetchHttpError(t) == FetchError(t, "HTTPError")

FetchUrlError(t) == FetchError(t, "URLError")

-----------------------------------------------------------------------------
(* Specification Spec: one call of download, with the pool's workers       *)
(* interleaved.  Specification SpecLive adds the scheduler's fairness.     *)

Jobs == [years : YearLists, datasource : {"merra", "merra2", "ecmwf"},
         datatype : {"wind", "rain"}, filefmt : {"nc4", "grib"}, skip_existing : {TRUE}]

NoArgs == [pending |-> TRUE]

urlIdle == args = NoArgs /\ result = NoResult

Init ==
    /\ job \in Jobs
    /\ mainpc = "validate"
    /\ dates = <<>>
    /\ submitted = 0
    /\ pool = 0
    /\ queue = <<>>
    /\ unfinished = 0
    /\ idle = 0
    /\ tpc = <<>>
    /\ rev = <<>>
    /\ mtries = <<>>
    /\ files = NoFiles
    /\ att = <<>>
    /\ outcome = <<>>
    /\ faults = 0
    /\ urlIdle /\ consIdle

Next ==
    \/ DownloadReject
    \/ DownloadSetup
    \/ AddTask
    \/ WaitCompletion
    \/ WorkerGet
    \/ \E t \in DOMAIN dates : SkipExisting(t)
    \/ \E t \in DOMAIN dates : StartDownload(t)
    \/ \E t \in DOMAIN dates : FetchOk(t)
    \/ \E t \in DOMAIN dates : FinishWrite(t)
    \/ \E t \in DOMAIN dates : MayFault(t) /\ FetchNotFound(t)
    \/ \E t \in DOMAIN dates : MayFault(t) /\ ~Faulty(t) /\ FetchHttpError(t)
    \/ \E t \in DOMAIN dates : MayFault(t) /\ ~Faulty(t) /\ FetchUrlError(t)

Spec == Init /\ [][Next]_vars

\* every thread that can take a step is eventually scheduled
SpecLive == Spec /\ WF_vars(Next)

-----------------------------------------------------------------------------
(* Specification SpecDate: one call of download_date by the calling thread, *)
(* on a destination directory that may hold files of earlier runs, and with *)
(* a transport that may fail at every fetch.                                *)

DateJobs == [date : {Date(2000, 12, 31), Date(2001, 1, 1)}, datasource : {"merra", "merra2"},
             datatype : {"wind"}, filefmt : {"default"}, skip_existing : BOOLEAN]

\* the target files of the revisions of one date
RevisionFiles(j) ==
    {[version |-> merra_version(j.date, PRESETS[j.datasource], Revisions[r]), date |-> j.date] :
        r \in DOMAIN Revisions}

InitDate ==
    /\ job \in DateJobs
    /\ mainpc = "download_date"
    /\ dates = <<job.date>>
    /\ submitted = 0
    /\ pool = 0
    /\ idle = 0
    /\ queue = <<>>
    /\ unfinished = 0
    /\ tpc = <<"try">>
    /\ rev = <<1>>
    /\ mtries = <<Tries>>
    /\ \E old \in SUBSET RevisionFiles(job) : files = [l \in old |-> 0]
    /\ att = <<NoAttempts>>
    /\ outcome = <<"none">>
    /\ faults = 0
    /\ urlIdle /\ consIdle

NextDate ==
    \/ SkipExisting(1)
    \/ StartDownload(1)
    \/ FetchOk(1)
    \/ FinishWrite(1)
    \/ FetchNotFound(1)
    \/ FetchHttpError(1)
    \/ FetchUrlError(1)

SpecDate == InitDate /\ [][NextDate]_vars

-----------------------------------------------------------------------------
(* Claims about download_date (SpecDate)                                    *)

\* the version number of revision 0 for task t: 100 plus 100 per breakpoint passed
BaseVersion(t) == 100 + 100 * Cardinality(BreakpointsPassed(job.datasource, dates[t]))

\* the target file of task t with version number v
FileOf(t, v) == [version |-> v, date |-> dates[t]]

\* this call wrote the file f
WrittenNow(f) == f \in DOMAIN files /\ files[f] = 1

\* the transport fetches issued for task t
Fetches(t) == att[t][1].n + att[t][2].n + att[t][3].n

\* C3: if the transport answers not-found for revisions 0 and 1 and succeeds for
\* revision 2, the date ends as downloaded and the file written is the one with
\* version base + 2, not base or base + 1.
C3_Revision2Downloaded ==
    \A t \in DOMAIN dates :
        ( /\ tpc[t] = "finished"
          /\ att[t][1].last = "notfound" /\ att[t][2].last = "notfound"
          /\ att[t][3].last = "ok" )
        => /\ outcome[t] = "downloaded"
           /\ WrittenNow(FileOf(t, BaseVersion(t) + 2))
           /\ ~WrittenNow(FileOf(t, BaseVersion(t)))
           /\ ~WrittenNow(FileOf(t, BaseVersion(t) + 1))

\* C3 witness: a date has ended downloaded after not-found for revisions 0 and 1,
\* and the file with version 302 is in the directory
C3_Witness ==
    /\ mainpc = "download_date"
    /\ tpc[1] = "finished" /\ outcome[1] = "downloaded"
    /\ att[1][1].last = "notfound" /\ att[1][2].last = "notfound" /\ att[1][3].last = "ok"
    /\ dates[1] = Date(2001, 1, 1) /\ job.datasource = "merra"
    /\ WrittenNow(FileOf(1, 302))

\* C4 (as claimed): with skip_existing set, a date for which a target file of any
\* of the revisions 0..2 exists beforehand ends skipped and no transport fetch is
\* issued for it.
C4_ExistingMeansNoFetch ==
    \A t \in DOMAIN dates :
        ( /\ mainpc = "download_date" /\ job.skip_existing
          /\ \E r \in DOMAIN Revisions :
                /\ TargetFile(t, r) \in DOMAIN files
                /\ files[TargetFile(t, r)] = 0 )
        => /\ Fetches(t) = 0
           /\ tpc[t] = "finished" => outcome[t] = "skipped"

\* C6 (as claimed): a transport error other than not-found (HTTPError with another
\* code, URLError) ends a date only after the fetch of that revision was made
\* Tries times: none ends the date on its first occurrence.
C6_ErrorsRetriedBeforeFailure ==
    \A t \in DOMAIN dates :
        ( /\ mainpc = "download_date"
          /\ outcome[t] \in {"HTTPError", "URLError"} )
        => att[t][rev[t]].n = Tries

-----------------------------------------------------------------------------
(* Claims about download and the thread pool (Spec, SpecLive)               *)

\* the tasks a worker is executing
Running == {t \in DOMAIN dates : tpc[t] \in {"try", "fetch", "write"}}

\* the tasks with a transport fetch in flight
Fetching == {t \in DOMAIN dates : tpc[t] \in {"fetch", "write"}}

AnyFailed == \E t \in DOMAIN dates : outcome[t] \in Failures

\* download has returned and every date has ended with an outcome
BatchDone ==
    /\ mainpc = "returned"
    /\ \A t \in DOMAIN dates : tpc[t] = "finished" /\ outcome[t] # "none"

\* C5: a date that fails never stops the batch: no worker is lost, download does
\* not raise, and from the failure on every submitted date is run to an outcome
\* and download returns.
C5_FailureDoesNotStopBatch ==
    /\ [](AnyFailed => /\ mainpc # "raised"
                       /\ idle + Cardinality(Running) = pool)
    /\ (AnyFailed ~> BatchDone)

\* C5 witness: download has returned from a batch in which all three revisions
\* of one date were not found, and a date submitted after it was downloaded
C5_Witness ==
    /\ BatchDone
    /\ \E t, u \in DOMAIN dates :
          /\ t < u
          /\ outcome[t] = "Exception"
          /\ \A r \in DOMAIN Revisions : att[t][r].last = "notfound"
          /\ outcome[u] = "downloaded"

\* C7: at every moment at most 4 dates have their task in execution, and so at
\* most 4 transport fetches are in flight, however many dates are submitted.
C7_AtMostFourInFlight ==
    /\ Cardinality(Running) <= 4
    /\ Cardinality(Fetching) <= 4

\* C7 witness: four fetches are in flight while a further submitted date waits
\* in the queue
C7_Witness ==
    /\ Cardinality({t \in DOMAIN dates : tpc[t] = "fetch"}) = 4
    /\ Len(queue) > 0

\* C8: download returns only after every submitted date has finished its task,
\* whether it succeeded or failed; and once download waits in wait_completion,
\* it eventually returns.
C8_JoinWaitsForAll ==
    /\ [](mainpc = "returned" =>
            /\ submitted = Len(dates)
            /\ unfinished = 0
            /\ \A t \in DOMAIN dates : tpc[t] = "finished" /\ outcome[t] # "none")
    /\ (mainpc = "join" ~> mainpc = "returned")

\* C8 witness: download has returned after the last date submitted had failed
\* and an earlier one was skipped
C8_Witness ==
    /\ mainpc = "returned"
    /\ outcome[Len(dates)] \in Failures
    /\ \E t \in DOMAIN dates : outcome[t] = "skipped"

\* C9 (as claimed): each date is taken from the queue by exactly one worker and
\* ends with exactly one outcome: no date is processed twice.
C9_EachDateOnce ==
    \A t, u \in DOMAIN dates :
        ( /\ dates[t] = dates[u]
          /\ tpc[t] \notin {"new", "queued"}
          /\ tpc[u] \notin {"new", "queued"} )
        => t = u

\* the arguments of download are registered: the source is known, and the
\* datatype and the file format are among those of the source
Registered(j) ==
    /\ j.datasource \in {"merra", "merra2"}
    /\ j.datatype \in {"wind", "solar"}
    /\ j.filefmt \in (IF j.datasource = "merra" THEN {"hdf", "nc", "default"}
                      ELSE {"nc4", "default"})

\* C10: when the source, the datatype or the file format is not registered,
\* download raises, and no pool is created, no date is submitted and no fetch
\* is issued; conversely download raises only then.
C10_RejectBeforePool ==
    /\ mainpc \in {"validate", "submit", "join", "returned", "raised"}
       => ( ~Registered(job) =>
              /\ mainpc \in {"validate", "raised"}
              /\ pool = 0 /\ idle = 0
              /\ dates = <<>> /\ submitted = 0 /\ queue = <<>> /\ unfinished = 0
              /\ att = <<>> /\ files = NoFiles )
    /\ mainpc = "raised" => ~Registered(job)

\* C10 witness: download has raised for a file format that is registered for
\* merra2 only, asked of merra
C10_Witness ==
    /\ mainpc = "raised"
    /\ job.datasource = "merra" /\ job.datatype = "wind" /\ job.filefmt = "nc4"
    /\ pool = 0

-----------------------------------------------------------------------------
(* Specification SpecBox: one call of create_url with a bounding box given *)
(* by a name that BBOX_PRESETS does not hold.                              *)

\* names that are no key of BBOX_PRESETS, of three, four and five characters
UnknownBoxes == {BoxName(<<"u","s","a">>), BoxName(<<"a","s","i","a">>), BoxName(<<"w","o","r","l","d">>)}

BoxArgs == {[a EXCEPT !.bbox = b] :
               a \in {x \in UrlArgs : x.date.month = 1 /\ x.date.day = 1 /\ x.bbox = TestBox},
               b \in UnknownBoxes}

InitBox == /\ args \in BoxArgs
           /\ result = NoResult
           /\ batchIdle /\ consIdle

SpecBox == InitBox /\ [][NextUrl]_vars

\* C11 (as claimed): for a bounding box given by a name that is not in
\* BBOX_PRESETS, create_url fails with an error and returns no URL.
C11_UnknownNameFails ==
    ( /\ result # NoResult
      /\ args.bbox.kind = "str"
      /\ args.bbox.val \notin DOMAIN BBOX_PRESETS )
    => ~result.ok

-----------------------------------------------------------------------------
(* Claims about the order of the revisions in download_date (SpecDate)      *)

\* the revisions are tried in order, each only after the one before it was not
\* found, and none is fetched after the one the call ended on
RevisionsInOrder ==
    \A t \in DOMAIN dates :
        /\ \A r \in DOMAIN Revisions :
              /\ att[t][r].n > 0 => rev[t] >= r
              /\ (r > 1 /\ rev[t] >= r) => att[t][r - 1].last = "notfound"
        /\ outcome[t] \in {"downloaded", "skipped"}
              => \A q \in DOMAIN Revisions : q > rev[t] => att[t][q].n = 0

\* C18: download_date tries the revisions in the order 0, 1, 2; revision r + 1
\* is built and fetched only after the attempt for revision r ended with
\* not-found, and once a revision was downloaded or skipped as existing nothing
\* more is built or fetched for the date.
C18_RevisionOrder ==
    /\ [](mainpc = "download_date" => RevisionsInOrder)
    /\ [][ \A t \in DOMAIN dates :
              outcome[t] \in {"downloaded", "skipped"}
                 => rev'[t] = rev[t] /\ att'[t] = att[t] /\ tpc'[t] = tpc[t] ]_vars

\* C18 witness: the date ended skipped at revision 1 after revision 0 was not
\* found, with no fetch for revision 2
C18_Witness ==
    /\ mainpc = "download_date"
    /\ outcome[1] = "skipped" /\ rev[1] = 2
    /\ att[1][1].last = "notfound" /\ att[1][2].n = 0 /\ att[1][3].n = 0

-----------------------------------------------------------------------------
(* utils.hourrange, the generator of the hourly axis of a yearly store.    *)
(* Specification SpecHours runs it from Jan 1 00:00 of a year to Jan 1     *)
(* 00:00 of the next, one entry per step.                                   *)

\* datetime.datetime(year, month, day, hour, 0)
DateTime(y, m, d, h) == [year |-> y, month |-> m, day |-> d, hour |-> h]

\* a < b on datetimes
DateTimeLT(a, b) ==
    \/ a.year < b.year
    \/ a.year = b.year /\ a.month < b.month
    \/ a.year = b.year /\ a.month = b.month /\ a.day < b.day
    \/ a.year = b.year /\ a.month = b.month /\ a.day = b.day /\ a.hour < b.hour

\* dt + datetime.timedelta(hours=1)
AddHour(dt) ==
    IF dt.hour < 23 THEN [dt EXCEPT !.hour = @ + 1]
    ELSE IF dt.day < DaysInMonth(dt.year, dt.month) THEN [dt EXCEPT !.hour = 0, !.day = @ + 1]
    ELSE IF dt.month < 12 THEN [dt EXCEPT !.hour = 0, !.day = 1, !.month = @ + 1]
    ELSE DateTime(dt.year + 1, 1, 1, 0)

\* a loop that also yields end_time (cur_time <= end_time)
HourLoopThroughEnd(cur, end) == DateTimeLT(cur, end) \/ cur = end

\* hourrange: while cur_time < end_time
HourLoop(cur, end) == DateTimeLT(cur, end)

\* the years whose axis is built: leap and common years, and the century years
\* 1900 and 2100 (not leap) and 2000 (leap)
HourYears == {1900, 1979, 1980, 2000, 2001, 2100}

\* hours = list(utils.hourrange(start_time, end_time)) in clean_merra: the
\* generator is created with cur_time = start_time
InitHours ==
    /\ \E y \in HourYears :
          hrange = [start_time |-> DateTime(y, 1, 1, 0), end_time |-> DateTime(y + 1, 1, 1, 0)]
    /\ cur_time = hrange.start_time
    /\ numhours = 0
    /\ start_hour = 0
    /\ hpc = "loop"
    /\ cleanIdle
    /\ urlIdle
    /\ batchIdle

\* hourrange: yield cur_time; cur_time += datetime.timedelta(hours=1)
HourYield ==
    /\ hpc = "loop"
    /\ HourLoop(cur_time, hrange.end_time)
    /\ numhours' = numhours + 1
    /\ cur_time' = AddHour(cur_time)
    /\ UNCHANGED <<hrange, start_hour, hpc, cleanVars, urlVars, batchVars>>

\* hourrange: the loop condition fails and the generator is exhausted
HourStop ==
    /\ hpc = "loop"
    /\ ~HourLoop(cur_time, hrange.end_time)
    /\ hpc' = "done"
    /\ UNCHANGED <<hrange, cur_time, numhours, start_hour, cleanVars, urlVars, batchVars>>

NextHours == HourYield \/ HourStop

SpecHours == InitHours /\ [][NextHours]_vars

\* the number of whole hours from 0001-01-01 00:00 to dt
HourIndex(dt) == (ToOrdinal(Date(dt.year, dt.month, dt.day)) - 1) * 24 + dt.hour

\* C13: the hourly axis of a year starts at Jan 1 00:00, each entry is one hour
\* after the one before it (the entry after k entries is k hours after the
\* start), and the axis has 8784 entries for a leap year and 8760 otherwise.
C13_HourAxisLength ==
    hpc \in {"loop", "done"} =>
        LET y == hrange.start_time.year
            leap == y % 4 = 0 /\ (y % 100 # 0 \/ y % 400 = 0)
        IN  /\ hrange.start_time = DateTime(y, 1, 1, 0)
            /\ numhours = 0 => cur_time = hrange.start_time
            /\ HourIndex(cur_time) = HourIndex(hrange.start_time) + numhours
            /\ cur_time.hour \in 0..23 /\ ValidDate(cur_time)
            /\ hpc = "done" => numhours = (IF leap THEN 8784 ELSE 8760)

\* C13 witness: the axis of the leap year 2000 is complete, with 8784 entries
\* up to Dec 31 23:00
C13_Witness ==
    /\ hpc = "done"
    /\ hrange.start_time.year = 2000 /\ numhours = 8784
    /\ cur_time = DateTime(2001, 1, 1, 0)

-----------------------------------------------------------------------------
(* The file names clean_merra and clean_merra2 work on: glob of '*.' + ext, *)
(* and the regular expressions regex_y and regex_d.  A pattern is a        *)
(* sequence of pieces: a literal text, n digits (\d{n}, [0-9]{n}), any one  *)
(* character (an unescaped '.'), or any text ('.*').                       *)

PLit(s) == [k |-> "lit", s |-> s, g |-> "-"]
PGroup(name, s) == [k |-> "lit", s |-> s, g |-> name]
PDigits(n) == [k |-> "digits", n |-> n, g |-> "-"]
PDigitsGroup(name, n) == [k |-> "digits", n |-> n, g |-> name]
PAny == [k |-> "any", g |-> "-"]
PStar == [k |-> "star", g |-> "-"]

\* piece p matches s[pos..e-1]
PieceMatches(p, s, pos, e) ==
    /\ pos <= e /\ e <= Len(s) + 1
    /\ CASE p.k = "lit" -> e - pos = Len(p.s) /\ SubSeq(s, pos, e - 1) = p.s
         [] p.k = "digits" -> e - pos = p.n /\ \A i \in pos..(e - 1) : s[i] \in {Digits[d] : d \in 1..10}
         [] p.k = "any" -> e - pos = 1
         [] p.k = "star" -> TRUE

RECURSIVE MatchFrom(_, _, _, _)
\* the pieces from the i-th on match s from pos on (up to any position)
MatchFrom(pieces, i, s, pos) ==
    IF i > Len(pieces) THEN TRUE
    ELSE \E e \in pos..(Len(s) + 1) :
            PieceMatches(pieces[i], s, pos, e) /\ MatchFrom(pieces, i + 1, s, e)

\* regex.search(s): the leftmost position a match starts at, 0 for None
Search(pieces, s) ==
    LET starts == {pos \in 1..(Len(s) + 1) : MatchFrom(pieces, 1, s, pos)}
    IN  IF starts = {} THEN 0 ELSE CHOOSE pos \in starts : \A q \in starts : pos <= q

RECURSIVE PieceStart(_, _, _)
\* where the i-th piece starts in a match that starts at pos; the pieces before
\* a group all have a fixed length
PieceStart(pieces, i, pos) ==
    IF i = 1 THEN pos
    ELSE PieceStart(pieces, i - 1, pos)
         + (IF pieces[i - 1].k = "lit" THEN Len(pieces[i - 1].s)
            ELSE IF pieces[i - 1].k = "digits" THEN pieces[i - 1].n ELSE 1)

\* m.group(name) of the match of pieces in s that starts at pos
MatchGroup(pieces, s, pos, name) ==
    LET i == CHOOSE j \in DOMAIN pieces : pieces[j].g = name
        from == PieceStart(pieces, i, pos)
        len == IF pieces[i].k = "lit" THEN Len(pieces[i].s) ELSE pieces[i].n
    IN  SubSeq(s, from, from + len - 1)

\* PRESETS[source]['datatypes'][datatype]['dataset'], as re.escape leaves it
\* to match (every character stands for itself)
ds_match(source, datatype) == PRESETS[source].datatypes[datatype].dataset

\* regex_y of clean_merra and of clean_merra2
regex_y(source, datatype, ext) ==
    IF source = "merra"
    THEN << PLit(<<"M","E","R","R","A">>), PDigits(3), PLit(<<".","p","r","o","d">>), PLit(<<".","a","s","s","i","m">>), PAny,
            PGroup("dataset", ds_match(source, datatype)), PLit(<<".">>),
            PDigitsGroup("year", 4), PDigits(4), PLit(<<".">>), PStar, PLit(<<".">>), PLit(ext) >>
    ELSE << PLit(<<"s","v","c","_","M","E","R","R","A","2","_">>), PDigits(3), PLit(<<".">>),
            PGroup("dataset", ds_match(source, datatype)), PLit(<<".">>),
            PDigitsGroup("year", 4), PDigits(4), PLit(<<".">>), PLit(ext) >>

\* regex_d of clean_merra and of clean_merra2
regex_d(source, datatype, ext) ==
    IF source = "merra"
    THEN << PLit(<<"M","E","R","R","A">>), PDigits(3), PLit(<<".","p","r","o","d">>), PLit(<<".","a","s","s","i","m">>), PAny,
            PLit(ds_match(source, datatype)), PLit(<<".">>),
            PDigitsGroup("date", 8), PLit(<<".">>), PStar, PLit(<<".">>), PLit(ext) >>
    ELSE << PLit(<<"s","v","c","_","M","E","R","R","A","2","_">>), PDigits(3), PLit(<<".">>),
            PGroup("dataset", ds_match(source, datatype)), PLit(<<".">>),
            PDigitsGroup("date", 8), PLit(<<".">>), PLit(ext) >>

\* glob.glob(os.path.join(source, '*.' + ext)) lists the name
Globbed(name, ext) ==
    /\ Len(name) > Len(ext)
    /\ SubSeq(name, Len(name) - Len(ext), Len(name)) = <<".">> \o ext
    /\ name[1] # "."

\* the default of the parameter ext: 'hdf' in clean_merra, 'nc4' in clean_merra2
DefaultExt(source) == IF source = "merra" THEN <<"h","d","f">> ELSE <<"n","c","4">>

\* keyfunc of group_by_tuple on a name: the tuple (dataset, year), or None
keyfunc(source, datatype, ext, name) ==
    LET re == regex_y(source, datatype, ext)
        pos == Search(re, name)
    IN  IF pos = 0 THEN [none |-> TRUE]
        ELSE [none |-> FALSE, dataset |-> MatchGroup(re, name, pos, "dataset"),
              year |-> MatchGroup(re, name, pos, "year")]

\* m.group('date') of regex_d.search(fname), or None
DateOfName(source, datatype, ext, name) ==
    LET re == regex_d(source, datatype, ext)
        pos == Search(re, name)
    IN  IF pos = 0 THEN [none |-> TRUE]
        ELSE [none |-> FALSE, date |-> MatchGroup(re, name, pos, "date")]

RECURSIVE ParseNat(_)
\* int(s) for a text of digits
ParseNat(s) ==
    IF s = <<>> THEN 0
    ELSE 10 * ParseNat(SubSeq(s, 1, Len(s) - 1))
         + ((CHOOSE d \in 1..10 : Digits[d] = s[Len(s)]) - 1)

\* datetime.datetime.strptime(text, '%Y%m%d') for a text of eight digits: the
\* date, or ValueError
strptime(text) ==
    LET d == Date(ParseNat(SubSeq(text, 1, 4)), ParseNat(SubSeq(text, 5, 6)),
                  ParseNat(SubSeq(text, 7, 8)))
    IN  IF d.year >= 1 /\ d.month \in 1..12 /\ d.day \in 1..DaysInMonth(d.year, d.month)
        THEN [ok |-> TRUE, date |-> d]
        ELSE [ok |-> FALSE, err |-> "ValueError"]

\* the command clean of main.py picks the name up for the source and datatype:
\* the name is globbed with the default ext and both expressions match it
PickedUp(source, datatype, name) ==
    /\ Globbed(name, DefaultExt(source))
    /\ ~keyfunc(source, datatype, DefaultExt(source), name).none
    /\ ~DateOfName(source, datatype, DefaultExt(source), name).none

\* C17 (as claimed): the label create_url gives for any date, datatype,
\* registered file format and revision is picked up by the source's
\* consolidation function run from the command line with the same datatype,
\* and the dataset, year and date read from the name are those of the request.
C17_LabelPickedUp ==
    (result # NoResult /\ result.ok) =>
        LET src == args.datasource
            key == keyfunc(src, args.datatype, DefaultExt(src), result.label)
            d == DateOfName(src, args.datatype, DefaultExt(src), result.label)
        IN  /\ PickedUp(src, args.datatype, result.label)
            /\ key.dataset = PRESETS[src].datatypes[args.datatype].dataset
            /\ ParseNat(key.year) = args.date.year
            /\ strptime(d.date) = [ok |-> TRUE, date |-> args.date]

-----------------------------------------------------------------------------
(* clean_merra and clean_merra2: the files of the source directory, the    *)
(* yearly stores of the destination directory, and one run of the          *)
(* consolidation, step by step.                                            *)

\* a file of the source directory: its name, whether the container can be read,
\* its variables (beside the axes), its number of time steps and its grid
SourceFile(name, readable, variables, steps) ==
    [name |-> name, readable |-> readable, sets |-> variables, steps |-> steps,
     lats |-> [len |-> 2, of |-> "lats"], longs |-> [len |-> 3, of |-> "longs"]]

\* files that can lie in the source directory of a merra run, in the order of
\* sorted(): a file of the solar dataset, three days of 2001 (the third one
\* unreadable), a day of 2002, a second day of 2002 that holds a dataset named
\* TIME, a second revision of the first day with a 25th time step, and a file
\* that is no MERRA file; each with the names datasets() lists
MerraCandidates ==
    << SourceFile(<<"M","E","R","R","A","3","0","0",".","p","r","o","d",".","a","s","s","i","m",".","t","a","v","g","1","_","2","d","_","r","a","d","_","N","x",".","2","0","0","1","0","1","0","1",".","S","U","B",".","h","d","f">>, TRUE, <<<<"S","W","G","D","N">>, <<"l","a","t","i","t","u","d","e">>, <<"l","o","n","g","i","t","u","d","e">>, <<"t","i","m","e">>>>, 24),
       SourceFile(<<"M","E","R","R","A","3","0","0",".","p","r","o","d",".","a","s","s","i","m",".","t","a","v","g","1","_","2","d","_","s","l","v","_","N","x",".","2","0","0","1","0","1","0","1",".","S","U","B",".","h","d","f">>, TRUE, <<<<"U","2","M">>, <<"V","2","M">>, <<"l","a","t","i","t","u","d","e">>, <<"l","o","n","g","i","t","u","d","e">>, <<"t","i","m","e">>>>, 24),
       SourceFile(<<"M","E","R","R","A","3","0","0",".","p","r","o","d",".","a","s","s","i","m",".","t","a","v","g","1","_","2","d","_","s","l","v","_","N","x",".","2","0","0","1","0","1","0","2",".","S","U","B",".","h","d","f">>, TRUE, <<<<"U","2","M">>, <<"l","a","t","i","t","u","d","e">>, <<"l","o","n","g","i","t","u","d","e">>, <<"t","i","m","e">>>>, 24),
       SourceFile(<<"M","E","R","R","A","3","0","0",".","p","r","o","d",".","a","s","s","i","m",".","t","a","v","g","1","_","2","d","_","s","l","v","_","N","x",".","2","0","0","1","0","1","0","3",".","S","U","B",".","h","d","f">>, FALSE, <<<<"U","2","M">>, <<"l","a","t","i","t","u","d","e">>, <<"l","o","n","g","i","t","u","d","e">>, <<"t","i","m","e">>>>, 24),
       SourceFile(<<"M","E","R","R","A","3","0","0",".","p","r","o","d",".","a","s","s","i","m",".","t","a","v","g","1","_","2","d","_","s","l","v","_","N","x",".","2","0","0","2","0","1","0","1",".","S","U","B",".","h","d","f">>, TRUE, <<<<"U","2","M">>, <<"V","2","M">>, <<"l","a","t","i","t","u","d","e">>, <<"l","o","n","g","i","t","u","d","e">>, <<"t","i","m","e">>>>, 24),
       SourceFile(<<"M","E","R","R","A","3","0","0",".","p","r","o","d",".","a","s","s","i","m",".","t","a","v","g","1","_","2","d","_","s","l","v","_","N","x",".","2","0","0","2","0","1","0","2",".","S","U","B",".","h","d","f">>, TRUE, <<<<"T","I","M","E">>, <<"U","2","M">>, <<"l","a","t","i","t","u","d","e">>, <<"l","o","n","g","i","t","u","d","e">>, <<"t","i","m","e">>>>, 24),
       SourceFile(<<"M","E","R","R","A","3","0","1",".","p","r","o","d",".","a","s","s","i","m",".","t","a","v","g","1","_","2","d","_","s","l","v","_","N","x",".","2","0","0","1","0","1","0","1",".","S","U","B",".","h","d","f">>, TRUE, <<<<"U","2","M">>, <<"l","a","t","i","t","u","d","e">>, <<"l","o","n","g","i","t","u","d","e">>, <<"t","i","m","e">>>>, 25),
       SourceFile(<<"n","o","t","e","s",".","h","d","f">>, TRUE, <<>>, 0) >>

\* the same for a merra2 run
Merra2Candidates ==
    << SourceFile(<<"R","E","A","D","M","E",".","n","c","4">>, TRUE, <<>>, 0),
       SourceFile(<<"s","v","c","_","M","E","R","R","A","2","_","3","0","0",".","t","a","v","g","1","_","2","d","_","r","a","d","_","N","x",".","2","0","0","1","0","1","0","1",".","n","c","4">>, TRUE, <<<<"S","W","G","D","N">>, <<"l","a","t">>, <<"l","o","n">>, <<"t","i","m","e">>>>, 24),
       SourceFile(<<"s","v","c","_","M","E","R","R","A","2","_","3","0","0",".","t","a","v","g","1","_","2","d","_","s","l","v","_","N","x",".","2","0","0","1","0","1","0","1",".","n","c","4">>, TRUE, <<<<"U","2","M">>, <<"V","2","M">>, <<"l","a","t">>, <<"l","o","n">>, <<"t","i","m","e">>>>, 24),
       SourceFile(<<"s","v","c","_","M","E","R","R","A","2","_","3","0","0",".","t","a","v","g","1","_","2","d","_","s","l","v","_","N","x",".","2","0","0","1","0","1","0","2",".","n","c","4">>, TRUE, <<<<"U","2","M">>, <<"l","a","t">>, <<"l","o","n">>, <<"t","i","m","e">>>>, 24),
       SourceFile(<<"s","v","c","_","M","E","R","R","A","2","_","3","0","0",".","t","a","v","g","1","_","2","d","_","s","l","v","_","N","x",".","2","0","0","1","0","1","0","3",".","n","c","4">>, FALSE, <<<<"U","2","M">>, <<"l","a","t">>, <<"l","o","n">>, <<"t","i","m","e">>>>, 24),
       SourceFile(<<"s","v","c","_","M","E","R","R","A","2","_","3","0","0",".","t","a","v","g","1","_","2","d","_","s","l","v","_","N","x",".","2","0","0","2","0","1","0","1",".","n","c","4">>, TRUE, <<<<"U","2","M">>, <<"V","2","M">>, <<"l","a","t">>, <<"l","o","n">>, <<"t","i","m","e">>>>, 24),
       SourceFile(<<"s","v","c","_","M","E","R","R","A","2","_","3","0","0",".","t","a","v","g","1","_","2","d","_","s","l","v","_","N","x",".","2","0","0","2","0","1","0","2",".","n","c","4">>, TRUE, <<<<"T","i","m","e">>, <<"U","2","M">>, <<"l","a","t">>, <<"l","o","n">>, <<"t","i","m","e">>>>, 24),
       SourceFile(<<"s","v","c","_","M","E","R","R","A","2","_","3","0","1",".","t","a","v","g","1","_","2","d","_","s","l","v","_","N","x",".","2","0","0","1","0","1","0","1",".","n","c","4">>, TRUE, <<<<"U","2","M">>, <<"l","a","t">>, <<"l","o","n">>, <<"t","i","m","e">>>>, 25) >>

CandidatesOf(source) == IF source = "merra" THEN MerraCandidates ELSE Merra2Candidates

\* the most files a source directory of the model holds
MaxFiles == 3

\* a < b on str
NameLT(a, b) ==
    \E i \in 1..(Len(b)) :
        /\ \A j \in 1..(i - 1) : j <= Len(a) /\ a[j] = b[j]
        /\ \/ i > Len(a)
           \/ i <= Len(a) /\ Ord(a[i]) < Ord(b[i])

\* sorted(names) = names
IsSorted(fs) == \A i \in 1..(Len(fs) - 1) : NameLT(fs[i].name, fs[i + 1].name)

\* the files with the indices S, in the order of the candidates
Pick(cands, S) ==
    [i \in 1..Cardinality(S) |->
        cands[CHOOSE k \in S : Cardinality({j \in S : j <= k}) = i]]

\* files = sorted(glob.glob(os.path.join(source, '*.' + ext))) for a directory
\* that holds at most MaxFiles of the candidates
Listings(source, ext) ==
    {fs \in {Pick(CandidatesOf(source), S) :
                S \in {T \in SUBSET DOMAIN CandidatesOf(source) : Cardinality(T) <= MaxFiles}} :
        /\ IsSorted(fs)
        /\ \A i \in DOMAIN fs : Globbed(fs[i].name, ext)}

\* str.lower()
Lower(s) ==
    [i \in DOMAIN s |-> IF Ord(s[i]) \in 65..90 THEN Ascii[Ord(s[i]) + 32 - 31] ELSE s[i]]

\* len(list(utils.hourrange(start_time, end_time))) for the year
NumHours(year) == IF IsLeap(year) THEN 8784 ELSE 8760

\* (cur_time - start_time).seconds in place of total_seconds(): the seconds
\* within the day only
StartHourFromSeconds(date, year) ==
    (((ToOrdinal(date) - ToOrdinal(Date(year, 1, 1))) * 86400) % 86400) \div 3600

\* start_hour = int((cur_time - start_time).total_seconds()/3600)
StartHour(date, year) == (ToOrdinal(date) - ToOrdinal(Date(year, 1, 1))) * 24

\* f with the value v at k
Put(f, k, v) == [x \in DOMAIN f \cup {k} |-> IF x = k THEN v ELSE f[x]]

NoRows == [r \in {} |-> 0]

\* a dataset of a store: its shape, what it was created from, and the rows that
\* were written since, row -> (file, time step)
Dataset(shape, data) == [shape |-> shape, data |-> data, rows |-> NoRows]

AxisNames == {<<"l","a","t","i","t","u","d","e">>, <<"l","o","n","g","i","t","u","d","e">>, <<"t","i","m","e">>}

\* the store of the group being merged, and the file being merged
CurStore == stores[gkey]
CurFile == cjob.listing[fidx]

\* the names the variable loop leaves out: ['latitude','longitude','time'] in
\* clean_merra, ['lat','lon','time'] in clean_merra2
Coordinates(source) ==
    IF source = "merra" THEN {<<"l","a","t","i","t","u","d","e">>, <<"l","o","n","g","i","t","u","d","e">>, <<"t","i","m","e">>} ELSE {<<"l","a","t">>, <<"l","o","n">>, <<"t","i","m","e">>}

\* v for the datasets of the file that are not in the list, compared as they
\* are spelt
Variables(file) == SelectSeq(file.sets, LAMBDA v : v \notin Coordinates(cjob.source))
CurYear == ParseNat(gkey.year)

\* keyfunc and the search of regex_d over the names of the candidates, for the
\* wind datatype and the extension main.clean leaves to its default
KeyOfName ==
    [s \in DataSources |->
        [n \in {CandidatesOf(s)[i].name : i \in DOMAIN CandidatesOf(s)} |->
            keyfunc(s, "wind", DefaultExt(s), n)]]

DateOfNameIn ==
    [s \in DataSources |->
        [n \in {CandidatesOf(s)[i].name : i \in DOMAIN CandidatesOf(s)} |->
            DateOfName(s, "wind", DefaultExt(s), n)]]

\* the key of the file at place p of the listing
KeyAt(p) == KeyOfName[cjob.source][cjob.listing[p].name]

\* the date read in the name of a file of the listing: a record with none set
\* when regex_d does not match it, the outcome of strptime otherwise
DateOf(file) ==
    LET d == DateOfNameIn[cjob.source][file.name]
    IN  IF d.none THEN [none |-> TRUE] ELSE [none |-> FALSE, parsed |-> strptime(d.date)]

\* the name v is created in the store of the group: the count of made goes up
Made(name) ==
    made' = Put(made, <<gkey, name>>,
                IF <<gkey, name>> \in DOMAIN made THEN made[<<gkey, name>>] + 1 ELSE 1)

\* the call ends by raising err
Raise(err) == cpc' = "raised" /\ cerr' = err


\* the steps of a run during which the call is executing
CleanRunning == {"start", "group", "file", "read", "axes", "lat", "long", "time", "var", "write"}

\* the consolidation runs the model makes on the same inputs
MaxRuns == 2

CleanJobs ==
    UNION {{[source |-> s, datatype |-> d, ext |-> DefaultExt(s), listing |-> l] :
               d \in {"wind", "none"}, l \in Listings(s, DefaultExt(s))} : s \in DataSources}

\* main.clean calls clean_merra or clean_merra2 on a source directory, with
\* an empty destination directory
InitClean ==
    /\ cjob \in CleanJobs
    /\ cpc = "start" /\ gpos = 1 /\ gkey = NoKey /\ fidx = 0 /\ vidx = 0
    /\ stores = NoStores /\ warned = {} /\ cerr = "none" /\ runs = 1 /\ snap = NoSnap
    /\ made = NoStores
    /\ hourIdle /\ urlIdle /\ batchIdle

\* the datatype is not one of the source's: raise ArgumentError, a name that
\* merra.py does not define
CleanReject ==
    /\ cpc = "start"
    /\ cjob.datatype \notin DOMAIN PRESETS[cjob.source].datatypes
    /\ Raise("NameError")
    /\ UNCHANGED <<cjob, gpos, gkey, fidx, vidx, stores, warned, runs, snap, made>>
    /\ UNCHANGED <<hourVars, urlVars, batchVars>>

\* the expressions are compiled and the files grouped (lazily)
CleanStart ==
    /\ cpc = "start"
    /\ cjob.datatype \in DOMAIN PRESETS[cjob.source].datatypes
    /\ cpc' = "group"
    /\ UNCHANGED <<cjob, gpos, gkey, fidx, vidx, stores, warned, cerr, runs, snap, made>>
    /\ UNCHANGED <<hourVars, urlVars, batchVars>>

\* for (dataset,year),files in files_years: no group is left
GroupsDone ==
    /\ cpc = "group"
    /\ gpos > Len(cjob.listing)
    /\ cpc' = "done"
    /\ UNCHANGED <<cjob, gpos, gkey, fidx, vidx, stores, warned, cerr, runs, snap, made>>
    /\ UNCHANGED <<hourVars, urlVars, batchVars>>

\* the next group has the key None (keyfunc has logged its warning): the
\* unpacking into (dataset,year) raises TypeError
GroupUnpackFails ==
    /\ cpc = "group"
    /\ gpos <= Len(cjob.listing)
    /\ KeyAt(gpos).none
    /\ warned' = warned \cup {cjob.listing[gpos].name}
    /\ Raise("TypeError")
    /\ UNCHANGED <<cjob, gpos, gkey, fidx, vidx, stores, runs, snap, made>>
    /\ UNCHANGED <<hourVars, urlVars, batchVars>>

\* the next group has a key (dataset, year): h5py.File opens the store of the
\* year, creating it when the destination does not hold it
GroupOpen ==
    /\ cpc = "group"
    /\ gpos <= Len(cjob.listing)
    /\ ~KeyAt(gpos).none
    /\ gkey' = KeyAt(gpos)
    /\ stores' = IF KeyAt(gpos) \in DOMAIN stores THEN stores
                 ELSE Put(stores, KeyAt(gpos), [n \in {} |-> 0])
    /\ cpc' = "file"
    /\ UNCHANGED <<cjob, gpos, fidx, vidx, warned, cerr, runs, snap, made>>
    /\ UNCHANGED <<hourVars, urlVars, batchVars>>

\* for path in files: the group is exhausted (the listing ends, or the next
\* file has another key; keyfunc logs its warning when that key is None)
GroupEnds ==
    /\ cpc = "file"
    /\ IF gpos > Len(cjob.listing) THEN TRUE ELSE KeyAt(gpos) # gkey
    /\ warned' = IF gpos > Len(cjob.listing) THEN warned
                 ELSE IF KeyAt(gpos).none THEN warned \cup {cjob.listing[gpos].name}
                 ELSE warned
    /\ cpc' = "group"
    /\ UNCHANGED <<cjob, gpos, gkey, fidx, vidx, stores, cerr, runs, snap, made>>
    /\ UNCHANGED <<hourVars, urlVars, batchVars>>

\* for path in files: the next file of the group; regex_d is searched in its
\* name and the date is parsed
FileTake ==
    /\ cpc = "file"
    /\ gpos <= Len(cjob.listing) /\ KeyAt(gpos) = gkey
    /\ fidx' = gpos
    /\ gpos' = gpos + 1
    /\ LET d == DateOf(cjob.listing[gpos])
       IN  IF d.none
           THEN /\ warned' = warned \cup {cjob.listing[gpos].name}
                /\ UNCHANGED <<cpc, cerr>>
           ELSE IF ~d.parsed.ok
           THEN Raise("ValueError") /\ UNCHANGED warned
           ELSE cpc' = "read" /\ UNCHANGED <<cerr, warned>>
    /\ UNCHANGED <<cjob, gkey, vidx, stores, runs, snap, made>>
    /\ UNCHANGED <<hourVars, urlVars, batchVars>>

\* the source file is opened and its axes are read
ReadOk ==
    /\ cpc = "read"
    /\ CurFile.readable
    /\ cpc' = "axes"
    /\ UNCHANGED <<cjob, gpos, gkey, fidx, vidx, stores, warned, cerr, runs, snap, made>>
    /\ UNCHANGED <<hourVars, urlVars, batchVars>>

\* what becomes of a failed read: clean_merra catches HDF4Error and logs it,
\* clean_merra2 has no try statement around h5py.File
OnReadError(source) == IF source = "merra" THEN "logged" ELSE "raised"

\* the source file cannot be read
ReadFails ==
    /\ cpc = "read"
    /\ ~CurFile.readable
    /\ IF OnReadError(cjob.source) = "logged"
       THEN /\ warned' = warned \cup {CurFile.name}
            /\ cpc' = "file"
            /\ UNCHANGED cerr
       ELSE /\ Raise("IOError")
            /\ UNCHANGED warned
    /\ UNCHANGED <<cjob, gpos, gkey, fidx, vidx, stores, runs, snap, made>>
    /\ UNCHANGED <<hourVars, urlVars, batchVars>>

\* if any(k not in outfile for k in ['latitude','longitude','time'])
AxesCheck ==
    /\ cpc = "axes"
    /\ IF AxisNames \subseteq DOMAIN CurStore
       THEN cpc' = "var"
       ELSE cpc' = "lat"
    /\ vidx' = 1
    /\ UNCHANGED <<cjob, gpos, gkey, fidx, stores, warned, cerr, runs, snap, made>>
    /\ UNCHANGED <<hourVars, urlVars, batchVars>>

\* the name of the axis created at a step, what it is created from, and the
\* step after it
AxisAt(pc) ==
    CASE pc = "lat" -> [name |-> <<"l","a","t","i","t","u","d","e">>, data |-> CurFile.lats, shape |-> <<CurFile.lats.len>>, then |-> "long"]
      [] pc = "long" -> [name |-> <<"l","o","n","g","i","t","u","d","e">>, data |-> CurFile.longs, shape |-> <<CurFile.longs.len>>, then |-> "time"]
      [] pc = "time" -> [name |-> <<"t","i","m","e">>, data |-> [len |-> NumHours(CurYear), of |-> "hours"],
                         shape |-> <<NumHours(CurYear)>>, then |-> "var"]

\* outfile['latitude'] = lats, outfile['longitude'] = longs,
\* outfile.create_dataset('time', ...): h5py raises when the name exists
CreateAxis ==
    /\ cpc \in {"lat", "long", "time"}
    /\ LET a == AxisAt(cpc)
       IN  IF a.name \in DOMAIN CurStore
           THEN /\ Raise("RuntimeError")
                /\ UNCHANGED <<stores, made>>
           ELSE /\ stores' = [stores EXCEPT ![gkey] = Put(@, a.name, Dataset(a.shape, a.data))]
                /\ Made(a.name)
                /\ cpc' = a.then
                /\ UNCHANGED cerr
    /\ UNCHANGED <<cjob, gpos, gkey, fidx, vidx, warned, runs, snap>>
    /\ UNCHANGED <<hourVars, urlVars, batchVars>>

\* the loop over the variables of the file is over: the next file is taken
FileMerged ==
    /\ cpc = "var"
    /\ vidx > Len(Variables(CurFile))
    /\ cpc' = "file"
    /\ UNCHANGED <<cjob, gpos, gkey, fidx, vidx, stores, warned, cerr, runs, snap, made>>
    /\ UNCHANGED <<hourVars, urlVars, batchVars>>

\* the array of a variable is created for every file that has the variable
CreateAlways(name, store) == TRUE

\* whether the array of a variable is created: if v.lower() not in outfile
CreateNeeded(name, store) == name \notin DOMAIN store

\* the next variable of the file: its array is created when the store does not
\* hold it
VarCheck ==
    /\ cpc = "var"
    /\ vidx <= Len(Variables(CurFile))
    /\ LET name == Lower(Variables(CurFile)[vidx])
       IN  IF CreateNeeded(name, CurStore)
           THEN /\ stores' = [stores EXCEPT ![gkey] =
                                 Put(@, name, Dataset(<<NumHours(CurYear), CurFile.lats.len,
                                                        CurFile.longs.len>>, "zeros"))]
                /\ Made(name)
           ELSE UNCHANGED <<stores, made>>
    /\ cpc' = "write"
    /\ UNCHANGED <<cjob, gpos, gkey, fidx, vidx, warned, cerr, runs, snap>>
    /\ UNCHANGED <<hourVars, urlVars, batchVars>>

\* the rows of outfile[v.lower()][:start_hour+len(ts),:,:], a slice that starts
\* at the beginning of the year
WindowFromYearStart(file, year) ==
    0..(StartHour(DateOf(file).parsed.date, year) + file.steps - 1)

\* the rows after those the array already holds, as many as the file has
\* time steps: the data of the file appended to the array
WindowAppend(file, year) ==
    LET held == Cardinality(DOMAIN CurStore[Lower(Variables(file)[vidx])].rows)
    IN  held..(held + file.steps - 1)

\* the rows outfile[v.lower()][start_hour:start_hour+len(ts),:,:] names
Window(file, year) ==
    LET start == StartHour(DateOf(file).parsed.date, year)
    IN  start..(start + file.steps - 1)

\* outfile[v.lower()][start_hour:start_hour+len(ts),:,:] = data: the rows of
\* the window take the data of the file; h5py raises TypeError when the data
\* has not the shape of the selection; a selection of three
\* indices on an array of one dimension (an axis) raises TypeError as well
WriteWindow ==
    /\ cpc = "write"
    /\ LET name == Lower(Variables(CurFile)[vidx])
           arr == CurStore[name]
           win == Window(CurFile, CurYear)
       IN  IF Len(arr.shape) # 3
           THEN /\ Raise("TypeError")
                /\ UNCHANGED <<stores, vidx>>
           ELSE IF \/ \E r \in win : r + 1 > arr.shape[1]
                   \/ arr.shape[2] # CurFile.lats.len \/ arr.shape[3] # CurFile.longs.len
           THEN /\ Raise("TypeError")
                /\ UNCHANGED <<stores, vidx>>
           ELSE /\ stores' = [stores EXCEPT ![gkey][name].rows =
                                 [r \in DOMAIN @ \cup win |->
                                     IF r \in win
                                     THEN [f |-> fidx, k |-> r - StartHour(DateOf(CurFile).parsed.date, CurYear)]
                                     ELSE @[r]]]
                /\ vidx' = vidx + 1
                /\ cpc' = "var"
                /\ UNCHANGED cerr
    /\ UNCHANGED <<cjob, gpos, gkey, fidx, warned, runs, snap, made>>
    /\ UNCHANGED <<hourVars, urlVars, batchVars>>

\* the process is stopped in the middle of the first run; the stores stay as
\* they are
Interrupt ==
    /\ cpc \in CleanRunning
    /\ runs = 1
    /\ cpc' = "killed"
    /\ UNCHANGED <<cjob, gpos, gkey, fidx, vidx, stores, warned, cerr, runs, snap, made>>
    /\ UNCHANGED <<hourVars, urlVars, batchVars>>

\* what a run starts from, and what is remembered of the first run
Restart(dest) ==
    /\ runs < MaxRuns
    /\ runs' = runs + 1
    /\ snap' = IF runs = 1
               THEN [how |-> cpc, err |-> cerr, stores |-> stores, warned |-> warned, dest |-> dest]
               ELSE snap
    /\ cpc' = "start" /\ gpos' = 1 /\ gkey' = NoKey /\ fidx' = 0 /\ vidx' = 0
    /\ warned' = {} /\ cerr' = "none"
    /\ UNCHANGED cjob

\* the command is run again on the same source directory, against the stores
\* the run before left in the destination
Rerun ==
    /\ cpc \in {"done", "raised", "killed"}
    /\ Restart("kept")
    /\ UNCHANGED <<stores, made>>
    /\ UNCHANGED <<hourVars, urlVars, batchVars>>

\* the stores are removed and the command is run again
RerunFromScratch ==
    /\ cpc \in {"done", "raised"}
    /\ Restart("emptied")
    /\ stores' = NoStores
    /\ made' = NoStores
    /\ UNCHANGED <<hourVars, urlVars, batchVars>>

NextClean ==
    \/ CleanReject \/ CleanStart
    \/ GroupsDone \/ GroupUnpackFails \/ GroupOpen \/ GroupEnds \/ FileTake
    \/ ReadOk \/ ReadFails
    \/ AxesCheck \/ CreateAxis \/ FileMerged \/ VarCheck \/ WriteWindow
    \/ Interrupt \/ Rerun \/ RerunFromScratch

SpecClean == InitClean /\ [][NextClean]_vars


\* the places of the listing whose file has no key (its name does not match
\* regex_y), and those whose file has one
Unparsed == {i \in DOMAIN cjob.listing : KeyAt(i).none}
Parsed == DOMAIN cjob.listing \ Unparsed

\* the store of its year holds, for every variable of the file at place i,
\* rows at all the hours of the file's window
Merged(i) ==
    LET file == cjob.listing[i]
        key == KeyAt(i)
    IN  /\ key \in DOMAIN stores
        /\ \A n \in DOMAIN Variables(file) :
              /\ Lower(Variables(file)[n]) \in DOMAIN stores[key]
              /\ Window(file, ParseNat(key.year)) \subseteq DOMAIN stores[key][Lower(Variables(file)[n])].rows

\* no file of the listing holds a variable whose lowercased name is the key
\* of an axis
PlainVariables ==
    \A i \in DOMAIN cjob.listing :
        \A n \in DOMAIN Variables(cjob.listing[i]) :
            Lower(Variables(cjob.listing[i])[n]) \notin AxisNames

\* the first run over the listing has ended
FirstRunEnded == runs = 1 /\ cpc \in {"done", "raised"}

\* C12: when a consolidation run over a directory holding a file whose name
\* does not match the naming convention (all files being readable) has ended,
\* the file has been warned about, no store was made for it, the run was not
\* stopped by an error, and every matching file is merged into the store of
\* its year.
C12_UnparsedNeverStops ==
    (/\ FirstRunEnded
     /\ cjob.datatype = "wind"
     /\ Unparsed # {}
     /\ PlainVariables
     /\ \A i \in DOMAIN cjob.listing : cjob.listing[i].readable)
    => /\ cpc = "done"
       /\ \A i \in Unparsed : cjob.listing[i].name \in warned
       /\ \A k \in DOMAIN stores : ~k.none
       /\ \A i \in Parsed : Merged(i)


\* the hours a file brings: from the hours between the first of January of
\* the year and the date of its name, as many hours as it has time steps
HoursOf(file, year) ==
    LET first == 24 * (ToOrdinal(DateOf(file).parsed.date) - ToOrdinal(Date(year, 1, 1)))
    IN  {r \in first..(first + file.steps - 1) : r < NumHours(year)}

\* the names of the arrays of the variables of a file
ArraysOf(file) == {Lower(Variables(file)[n]) : n \in DOMAIN Variables(file)}

\* a file of the listing is being merged into the store of its group
Merging == cpc \in {"axes", "lat", "long", "time", "var", "write"}

\* a step of merging the current file keeps every store, and all that the
\* stores hold but the rows of the file's hours in the arrays of its variables
MergeKeepsRest ==
    Merging =>
        LET hours == HoursOf(CurFile, CurYear)
            arrays == ArraysOf(CurFile)
        IN  \A k \in DOMAIN stores :
                /\ k \in DOMAIN stores'
                /\ \A n \in DOMAIN stores[k] :
                      /\ n \in DOMAIN stores'[k]
                      /\ IF k = gkey /\ n \in arrays
                         THEN /\ stores'[k][n].shape = stores[k][n].shape
                              /\ stores'[k][n].data = stores[k][n].data
                              /\ DOMAIN stores'[k][n].rows \subseteq DOMAIN stores[k][n].rows \cup hours
                              /\ \A r \in DOMAIN stores[k][n].rows \ hours :
                                    /\ r \in DOMAIN stores'[k][n].rows
                                    /\ stores'[k][n].rows[r] = stores[k][n].rows[r]
                         ELSE stores'[k][n] = stores[k][n]

\* the files of the listing, other than the one at place i, that bring the
\* hour r of the array n to the store of the same key
OthersAt(i, n, r) ==
    {j \in Parsed \ {i} :
        /\ KeyAt(j) = KeyAt(i)
        /\ cjob.listing[j].readable
        /\ n \in ArraysOf(cjob.listing[j])
        /\ r \in HoursOf(cjob.listing[j], ParseNat(KeyAt(j).year))}

\* when a run has merged all files, an hour that one file only brings to an
\* array holds the data of that file's time step
EachInItsRange ==
    cpc = "done" =>
        \A i \in Parsed :
            cjob.listing[i].readable =>
                LET year == ParseNat(KeyAt(i).year)
                    hours == HoursOf(cjob.listing[i], year)
                    first == 24 * (ToOrdinal(DateOf(cjob.listing[i]).parsed.date) - ToOrdinal(Date(year, 1, 1)))
                IN  \A n \in ArraysOf(cjob.listing[i]) :
                        \A r \in hours :
                            OthersAt(i, n, r) = {} =>
                                /\ r \in DOMAIN stores[KeyAt(i)][n].rows
                                /\ stores[KeyAt(i)][n].rows[r] = [f |-> i, k |-> r - first]

\* C14: every step of merging a file changes, in the arrays of the file's
\* variables, only the rows from start_hour up to start_hour plus the number
\* of its time steps; the other rows, the arrays of other variables and the
\* axes keep their values. So when all files are merged, files with disjoint
\* hour ranges each have their data in their own range.
C14_OnlyTheWindowChanges == [][MergeKeepsRest]_vars /\ []EachInItsRange

\* two files of consecutive days are merged into the store of 2001: the
\* hours 0..23 of u2m hold the first file, the hours 24..47 the second, and
\* v2m, which the second file has not, keeps the first file's hours only
C14_Witness ==
    /\ cpc = "done" /\ runs = 1 /\ cjob.source = "merra"
    /\ Len(cjob.listing) = 2
    /\ \E k \in DOMAIN stores :
          /\ AxisNames \cup {<<"u","2","m">>, <<"v","2","m">>} = DOMAIN stores[k]
          /\ DOMAIN stores[k][<<"u","2","m">>].rows = 0..47
          /\ stores[k][<<"u","2","m">>].rows[23] = [f |-> 1, k |-> 23]
          /\ stores[k][<<"u","2","m">>].rows[24] = [f |-> 2, k |-> 0]
          /\ DOMAIN stores[k][<<"v","2","m">>].rows = 0..23


\* the places of the listing whose file cannot be read
Unreadable == {i \in DOMAIN cjob.listing : ~cjob.listing[i].readable}

\* C15: when a consolidation run of either source over a directory of files
\* with matching names, one of which cannot be read, has ended, the run was
\* not stopped by an error, the unreadable file has been logged, and every
\* readable file is merged into the store of its year.
C15_ReadFailureNeverStops ==
    (/\ FirstRunEnded
     /\ cjob.datatype = "wind"
     /\ Unparsed = {}
     /\ PlainVariables
     /\ Unreadable # {})
    => /\ cpc = "done"
       /\ \A i \in Unreadable : cjob.listing[i].name \in warned
       /\ \A i \in Parsed \ Unreadable : Merged(i)


\* the first run ended by itself (done, or stopped by an error) and the run
\* after it on the same listing has ended too
BothRunsEnded ==
    /\ runs = 2
    /\ cpc \in {"done", "raised"}
    /\ snap.how \in {"done", "raised"}

\* C16: when consolidation has run twice over the same listing, the stores
\* (their axes, their arrays and every row of them) are those the first run
\* left, whether the second run started from an emptied destination or
\* opened the stores of the first.
C16_SecondRunSameStores ==
    BothRunsEnded => stores = snap.stores /\ cpc = snap.how /\ cerr = snap.err

\* both runs over two daily files of 2001 are done, the second one on the
\* stores of the first: the store holds the 48 hours of u2m
C16_Witness ==
    /\ BothRunsEnded
    /\ snap.dest = "kept" /\ cpc = "done"
    /\ Len(cjob.listing) = 2
    /\ \E k \in DOMAIN stores :
          /\ <<"u","2","m">> \in DOMAIN stores[k]
          /\ DOMAIN stores[k][<<"u","2","m">>].rows = 0..47
          /\ stores = snap.stores


\* the places of the listing whose file supplies the name n to the store of
\* the key k: a readable file of that key, with the variable (any such file
\* supplies the axes)
Suppliers(k, n) ==
    {i \in Parsed :
        /\ KeyAt(i) = k
        /\ cjob.listing[i].readable
        /\ DateOf(cjob.listing[i]).none = FALSE
        /\ n \in AxisNames \cup ArraysOf(cjob.listing[i])}

\* no axis and no array of a store was created twice
MadeOnce == \A c \in DOMAIN made : made[c] <= 1

\* in the first run, a store holds a name only once a file supplying it has
\* been taken, and holds it as soon as such a file is behind
MadeOnFirstSupplier ==
    runs = 1 =>
        \A k \in DOMAIN stores :
            /\ \A n \in DOMAIN stores[k] : \E i \in Suppliers(k, n) : i <= fidx
            /\ \A n \in AxisNames \cup {<<"u","2","m">>, <<"v","2","m">>} :
                  (\E i \in Suppliers(k, n) : i < fidx) => n \in DOMAIN stores[k]

\* a step keeps the names a store holds, with their shapes (and the axes with
\* their values), as long as the store is in the destination
ShapesKept ==
    \A k \in DOMAIN stores \cap DOMAIN stores' :
        \A n \in DOMAIN stores[k] :
            /\ n \in DOMAIN stores'[k]
            /\ stores'[k][n].shape = stores[k][n].shape
            /\ stores'[k][n].data = stores[k][n].data

\* C19: in a yearly store, over the files merged by a run and by a run after
\* it that opens the same store, every axis and every variable array is
\* created at most once, by the first file that supplies it, and keeps its
\* shape; later files change rows only.
C19_CreatedOnce == []MadeOnce /\ []MadeOnFirstSupplier /\ [][ShapesKept]_vars

\* the second run over two daily files is done on the store of the first:
\* the three axes and the two arrays have each been created once
C19_Witness ==
    /\ runs = 2 /\ cpc = "done" /\ snap.dest = "kept" /\ snap.how = "done"
    /\ Len(cjob.listing) = 2
    /\ \E k \in DOMAIN stores :
          /\ DOMAIN stores[k] = AxisNames \cup {<<"u","2","m">>, <<"v","2","m">>}
          /\ \A n \in DOMAIN stores[k] : made[<<k, n>>] = 1
          /\ stores[k][<<"u","2","m">>].shape = <<8760, 2, 3>>


\* no hour of an array is brought by two files of the listing
DisjointHours ==
    \A i \in Parsed :
        \A n \in ArraysOf(cjob.listing[i]) :
            \A r \in HoursOf(cjob.listing[i], ParseNat(KeyAt(i).year)) : OthersAt(i, n, r) = {}

\* the first run was interrupted and the run after it, on the stores left
\* behind, has ended; every file of the listing has a matching name and is
\* readable and the files' hours are disjoint, so that an uninterrupted run
\* merges them all, each into its own rows
RerunAfterInterruptEnded ==
    /\ runs = 2
    /\ snap.how = "killed"
    /\ cpc \in {"done", "raised"}
    /\ cjob.datatype = "wind"
    /\ Unparsed = {} /\ Unreadable = {}
    /\ PlainVariables
    /\ DisjointHours

\* every row the interrupted run left in a store is in the store, unchanged
WrittenRowsKept ==
    \A k \in DOMAIN snap.stores :
        /\ k \in DOMAIN stores
        /\ \A n \in DOMAIN snap.stores[k] :
              /\ n \in DOMAIN stores[k]
              /\ \A r \in DOMAIN snap.stores[k][n].rows :
                    /\ r \in DOMAIN stores[k][n].rows
                    /\ stores[k][n].rows[r] = snap.stores[k][n].rows[r]

\* C20: when consolidation was interrupted at any step and has been run again
\* on the same listing against the stores left behind, the second run is done
\* without error, the rows written before the interruption keep their values,
\* and every file is merged as in an uninterrupted run.
C20_RerunAfterInterrupt ==
    RerunAfterInterruptEnded =>
        /\ cpc = "done"
        /\ WrittenRowsKept
        /\ \A i \in Parsed : Merged(i)
        /\ EachInItsRange


\* C21: in the first run over a directory of matching names, whenever the
\* loop is about to take the next group from the grouped listing, the key of
\* that group has not been yielded before (no store of that key is open or
\* made yet), and the group that just ended held every file of its key.
C21_EachKeyOnce ==
    (/\ runs = 1
     /\ cpc = "group"
     /\ cjob.datatype = "wind"
     /\ Unparsed = {})
    => /\ gpos <= Len(cjob.listing) => KeyAt(gpos) \notin DOMAIN stores
       /\ gkey # NoKey => \A i \in Parsed : KeyAt(i) = gkey => i < gpos


------------------------------------------------------------------------------
(* The window of every daily file of a year: clean_merra over a directory   *)
(* that holds one file of 24 time steps for each day of the year, taken in  *)
(* the order of their names.                                                 *)

\* the day after the day of dt, at 00:00
NextDay(dt) ==
    IF dt.day < DaysInMonth(dt.year, dt.month) THEN [dt EXCEPT !.day = @ + 1]
    ELSE IF dt.month < 12 THEN [dt EXCEPT !.day = 1, !.month = @ + 1]
    ELSE DateTime(dt.year + 1, 1, 1, 0)

\* the group of a year: start_time, end_time and numhours are set and the
\* first file, of the first of January, is taken
InitDays ==
    /\ \E y \in HourYears :
          /\ hrange = [start_time |-> DateTime(y, 1, 1, 0), end_time |-> DateTime(y + 1, 1, 1, 0)]
          /\ numhours = NumHours(y)
    /\ cur_time = hrange.start_time
    /\ start_hour = 0
    /\ hpc = "name"
    /\ cleanIdle
    /\ urlIdle
    /\ batchIdle

\* cur_time = strptime(m.group('date'), '%Y%m%d') and start_hour are computed
\* for the file
DayStartHour ==
    /\ hpc = "name"
    /\ start_hour' = StartHour(Date(cur_time.year, cur_time.month, cur_time.day),
                               hrange.start_time.year)
    /\ hpc' = "window"
    /\ UNCHANGED <<hrange, cur_time, numhours, cleanVars, urlVars, batchVars>>

\* the rows start_hour..start_hour+len(ts)-1 are written and the file of the
\* next day is taken
DayWritten ==
    /\ hpc = "window"
    /\ DateTimeLT(NextDay(cur_time), hrange.end_time)
    /\ cur_time' = NextDay(cur_time)
    /\ hpc' = "name"
    /\ UNCHANGED <<hrange, numhours, start_hour, cleanVars, urlVars, batchVars>>

\* the rows of the file of the last day are written: the group is merged
DaysEnd ==
    /\ hpc = "window"
    /\ ~DateTimeLT(NextDay(cur_time), hrange.end_time)
    /\ hpc' = "merged"
    /\ UNCHANGED <<hrange, cur_time, numhours, start_hour, cleanVars, urlVars, batchVars>>

NextDays == DayStartHour \/ DayWritten \/ DaysEnd

SpecDays == InitDays /\ [][NextDays]_vars


\* the days of a common year before each month
DaysBefore == <<0, 31, 59, 90, 120, 151, 181, 212, 243, 273, 304, 334>>

\* the day of the year of dt: 1 on the first of January
DayOfYear(dt) ==
    LET leap == dt.year % 4 = 0 /\ (dt.year % 100 # 0 \/ dt.year % 400 = 0)
    IN  DaysBefore[dt.month] + dt.day + (IF leap /\ dt.month > 2 THEN 1 ELSE 0)

\* the start_hour of the day's file is 24 times the days before it, and its
\* window of 24 rows is inside the axis
WindowOfDay ==
    hpc \in {"window", "merged"} =>
        /\ start_hour = 24 * (DayOfYear(cur_time) - 1)
        /\ start_hour >= 0
        /\ start_hour + 24 <= numhours
        /\ numhours = (IF DayOfYear(DateTime(cur_time.year, 12, 31, 0)) = 366 THEN 8784 ELSE 8760)

\* the window of the last day ends where the axis ends
LastWindowEndsAxis == hpc = "merged" => start_hour + 24 = numhours

\* the window of a day starts where the window of the day before ended (and
\* the first at row 0): the windows do not overlap and leave no row out
WindowsAdjacent ==
    hpc = "name" /\ hpc' = "window" =>
        start_hour' = (IF cur_time = hrange.start_time THEN 0 ELSE start_hour + 24)

\* C22: for every day of a year the start_hour of the day's file is 24 times
\* (day of the year - 1); the windows of 24 rows of the days are inside the
\* hourly axis, follow each other without overlap and without gap from row 0,
\* and the last one ends at the end of the axis, in leap and common years.
C22_DayWindowsTileYear == []WindowOfDay /\ []LastWindowEndsAxis /\ [][WindowsAdjacent]_vars

\* the file of 29 February 2000 has the window starting at row 1416, and the
\* axis of the leap year has 8784 rows
C22_Witness ==
    /\ hpc = "window"
    /\ cur_time = DateTime(2000, 2, 29, 0)
    /\ start_hour = 1416
    /\ numhours = 8784


------------------------------------------------------------------------------
(* Termination of download_date (SpecDateLive: the calling thread keeps      *)
(* running and the transport answers every fetch).                          *)

SpecDateLive == SpecDate /\ WF_vars(NextDate)

\* the fetches issued for task t, over all revisions
FetchesOf(t) == att[t][1].n + att[t][2].n + att[t][3].n

\* at most Tries fetches are made for a revision, a fetch is pending only
\* while fewer were made, and at most 3 * Tries for the date
FetchesBounded ==
    \A t \in DOMAIN dates :
        /\ \A r \in DOMAIN Revisions :
              /\ att[t][r].n <= Tries
              /\ (tpc[t] = "fetch" /\ rev[t] = r) => att[t][r].n < Tries
        /\ Len(Revisions) = 3
        /\ FetchesOf(t) <= 30

\* a step makes no fetch for a revision whose last answer was not-found
NotFoundEndsRevision ==
    \A t \in DOMAIN dates :
        \A r \in DOMAIN Revisions :
            att[t][r].last = "notfound" => att'[t][r] = att[t][r]

------------------------------------------------------------------------------
(* Further claims about download and the thread pool (Spec)                 *)

\* the tasks that have their target file open for writing
Writing == {t \in DOMAIN dates : tpc[t] = "write"}

\* C24 (as claimed): during a batch no two tasks have the same target path
\* open for writing at the same time.
C24_NoSharedTarget ==
    \A t, u \in Writing :
        t # u => TargetFile(t, rev[t]) # TargetFile(u, rev[u])


\* C25 (as claimed): whenever the variable loop is about to write a key of
\* the store, the lowercased name of the variable is none of the three axis
\* keys 'latitude', 'longitude' and 'time'.
C25_LoopKeyIsNoAxis ==
    cpc = "write" => Lower(Variables(CurFile)[vidx]) \notin AxisNames


=============================================================================
